---- MODULE Spec2Model ----
(***************************************************************************)
(* Model of scripts/build_pdf.py (legend-simflow-mage): the channel-mapping *)
(* resolver, the m2 event categoriser and the per-batch histogram           *)
(* accumulation, grouping and writing of the pdf builder.                   *)
(*                                                                          *)
(* A stored energy is the integer n counting 1/EnergyScale of the stored    *)
(* unit and stands for the float64 nearest n/EnergyScale, so the stored     *)
(* value 0.5 is 50. The sums, the products and the bin search of the        *)
(* energies are computed in float64 arithmetic, as numpy and ROOT do.       *)
(* Character strings that the code builds or parses (decimal numbers, file  *)
(* names, f-string keys) are sequences or tuples of their parts.            *)
(***************************************************************************)
EXTENDS Integers, Sequences, FiniteSets, Bags, TLC

\* ------------------------------------------------------------------ bounds
MaxBatches == 2     \* batches pytree.iterate yields for one file
MaxString == 12     \* string indices tried on the categoriser
MaxPos == 3         \* position indices tried on the categoriser
MaxIds == 2         \* length of the identifier lists tried on the resolver
MaxMacros == 11     \* n_macros tried on the path patterns
MaxCode == 99       \* string and position indices encoded into a mage id

\* --------------------------------------------------------- configuration
EnergyScale == 100
energy_threshold == 10      \* rconfig["energy_threshold"] = 0.1
nbins == 30                 \* rconfig["hist"]["nbins"]
emin == 0                   \* rconfig["hist"]["emin"]
emax == 3000                \* rconfig["hist"]["emax"]
\* remove_ac_hits = True (line 202)
remove_ac_hits == TRUE

Min(a, b) == IF a <= b THEN a ELSE b
Abs(a) == IF a < 0 THEN -a ELSE a
Range(s) == {s[i] : i \in DOMAIN s}

\* ------------------------------------------------------------ channel map
\* meta.channelmap(timestamp): detector name -> metadata, in dict order.
chmap_names == <<"V01", "V02", "B03", "C04", "S01">>

chmap ==
    ( "V01" :> [system |-> "geds", location |-> [string |-> 1, position |-> 1],
                daq |-> [rawid |-> 1001], type |-> "icpc"]
   @@ "V02" :> [system |-> "geds", location |-> [string |-> 1, position |-> 2],
                daq |-> [rawid |-> 1002], type |-> "icpc"]
   @@ "B03" :> [system |-> "geds", location |-> [string |-> 1, position |-> 3],
                daq |-> [rawid |-> 1003], type |-> "bege"]
   @@ "C04" :> [system |-> "geds", location |-> [string |-> 8, position |-> 1],
                daq |-> [rawid |-> 1004], type |-> "coax"]
   @@ "S01" :> [system |-> "spms", location |-> [string |-> 8, position |-> 1],
                daq |-> [rawid |-> 2001], type |-> "sipm"] )

\* f"ch{rawid}"
ChKey(rawid) == <<"ch", rawid>>

GedNames == {n \in Range(chmap_names) : chmap[n].system = "geds"}

geds_mapping == [k \in {ChKey(chmap[n].daq.rawid) : n \in GedNames} |->
                    CHOOSE n \in GedNames : ChKey(chmap[n].daq.rawid) = k]

geds_strings == [k \in DOMAIN geds_mapping |-> chmap[geds_mapping[k]].location.string]

geds_positions == [k \in DOMAIN geds_mapping |-> chmap[geds_mapping[k]].location.position]

\* ------------------------------------------------------- decimal strings
\* str(n) of a non-negative integer, as its sequence of decimal digits.
RECURSIVE Str(_)
Str(n) == IF n < 10 THEN <<n>> ELSE Append(Str(n \div 10), n % 10)

\* s[a:b] of Python (0-based, end exclusive, clipped to the length).
PySlice(s, a, b) == SubSeq(s, Min(a, Len(s)) + 1, Min(b, Len(s)))

\* int(d) of a non-empty digit string; int("") raises ValueError.
RECURSIVE IntOf(_)
IntOf(d) == IF Len(d) = 0 THEN 0
            ELSE 10 * IntOf(SubSeq(d, 1, Len(d) - 1)) + d[Len(d)]

IntRaises(d) == Len(d) = 0

\* ------------------------------------------------- channel-mapping resolver
\* is_ged = bool(int(m_id[0]))
IsGedNoFlagCheck(_mage_id) == TRUE

IsGed(_mage_id) == IntOf(PySlice(Str(_mage_id), 0, 1)) # 0

\* string = int(m_id[3:5]), pos = int(m_id[5:7])
MageStringShifted(_mage_id) == PySlice(Str(_mage_id), 2, 4)

MageString(_mage_id) == PySlice(Str(_mage_id), 3, 5)
MagePos(_mage_id) == PySlice(Str(_mage_id), 5, 7)

\* The identifier makes process_mage_id raise (int() of an empty slice).
IdRaises(_mage_id) ==
    /\ IsGed(_mage_id)
    /\ IntRaises(MageString(_mage_id)) \/ IntRaises(MagePos(_mage_id))

\* Indices of the geds entries of the channel map at the decoded location.
Matches(_mage_id) ==
    {i \in DOMAIN chmap_names :
        /\ chmap[chmap_names[i]].system = "geds"
        /\ chmap[chmap_names[i]].location.string = IntOf(MageString(_mage_id))
        /\ chmap[chmap_names[i]].location.position = IntOf(MagePos(_mage_id))}

\* The identifier gets an entry in the four mappings.
Resolved(_mage_id) == IsGed(_mage_id) /\ ~IdRaises(_mage_id) /\ Matches(_mage_id) # {}

\* The last matching entry of the chmap loop is the one that stays.
LastMatch(_mage_id) == chmap_names[CHOOSE i \in Matches(_mage_id) :
                                      \A j \in Matches(_mage_id) : j <= i]

\* process_mage_id(mage_ids): the four mappings, or raised = TRUE when the
\* loop stops on an identifier int() cannot decode.
process_mage_id(mage_ids) ==
    LET bad == {i \in DOMAIN mage_ids : IdRaises(mage_ids[i])}
        upto == IF bad = {} THEN Len(mage_ids)
                ELSE (CHOOSE i \in bad : \A j \in bad : i <= j) - 1
        keys == {mage_ids[i] : i \in {j \in 1..upto : Resolved(mage_ids[j])}}
    IN  [raised |-> bad # {},
         name |-> [k \in keys |-> LastMatch(k)],
         channel |-> [k \in keys |-> ChKey(chmap[LastMatch(k)].daq.rawid)],
         position |-> [k \in keys |-> IntOf(MagePos(k))],
         string |-> [k \in keys |-> IntOf(MageString(k))]]

\* get_vectorised_converter(mapping) applied to one array of identifiers;
\* mapping[mage_id] raises KeyError on an identifier that is no key.
ConverterRaises(mapping, ids) == \E i \in DOMAIN ids : ids[i] \notin DOMAIN mapping

get_vectorised_converter(mapping, ids) == [i \in DOMAIN ids |-> mapping[ids[i]]]

\* ------------------------------------------------------- event categoriser
\* get_m2_categories: channel_array is a sequence of <<id1, id2>> rows.
CategoryNoAbs(s1, p1, s2, p2) ==
    LET same_string == s1 = s2
        neighbour == p1 - p2 = 1
    IN  IF same_string /\ neighbour THEN 1 ELSE IF same_string THEN 2 ELSE 3

Category(s1, p1, s2, p2) ==
    LET same_string == s1 = s2
        neighbour == Abs(p1 - p2) = 1
        is_cat_one == same_string /\ neighbour
        is_cat_two == same_string /\ ~neighbour
        is_cat_three == ~same_string
    IN  (IF is_cat_one THEN 1 ELSE 0) + (IF is_cat_two THEN 2 ELSE 0)
          + (IF is_cat_three THEN 3 ELSE 0)

get_m2_categories(channel_array, channel_to_string, channel_to_position) ==
    [i \in DOMAIN channel_array |->
        Category(channel_to_string[channel_array[i][1]],
                 channel_to_position[channel_array[i][1]],
                 channel_to_string[channel_array[i][2]],
                 channel_to_position[channel_array[i][2]])]

\* get_string_row_diff: the modulus 11 is written in the code.
StringDiffMod13(s1, s2) ==
    LET string_diff_1 == (s1 - s2) % 13
        string_diff_2 == (-s1 + s2) % 13
    IN  Min(string_diff_1, string_diff_2)

StringDiffOneSided(s1, s2) == (s1 - s2) % 11

StringDiff(s1, s2) ==
    LET string_diff_1 == (s1 - s2) % 11
        string_diff_2 == (-s1 + s2) % 11
    IN  Min(string_diff_1, string_diff_2)

get_string_row_diff(channel_array, channel2string, channel2position) ==
    [string_diff |-> [i \in DOMAIN channel_array |->
                        StringDiff(channel2string[channel_array[i][1]],
                                   channel2string[channel_array[i][2]])],
     floor_diff |-> [i \in DOMAIN channel_array |->
                        Abs(channel2position[channel_array[i][1]]
                              - channel2position[channel_array[i][2]])]]

\* ------------------------------------------------------ file-name parsing
\* A file name is the sequence of its characters; a character outside ASCII
\* is written by its code point. \d of a str pattern matches every Unicode
\* decimal digit (category Nd): the ten ASCII digits and the 650 others.
DigitChars ==
    {"0", "1", "2", "3", "4", "5", "6", "7", "8", "9",
     "U+0660", "U+0661", "U+0662", "U+0663", "U+0664", "U+0665", "U+0666", "U+0667", "U+0668", "U+0669",
     "U+06F0", "U+06F1", "U+06F2", "U+06F3", "U+06F4", "U+06F5", "U+06F6", "U+06F7", "U+06F8", "U+06F9",
     "U+07C0", "U+07C1", "U+07C2", "U+07C3", "U+07C4", "U+07C5", "U+07C6", "U+07C7", "U+07C8", "U+07C9",
     "U+0966", "U+0967", "U+0968", "U+0969", "U+096A", "U+096B", "U+096C", "U+096D", "U+096E", "U+096F",
     "U+09E6", "U+09E7", "U+09E8", "U+09E9", "U+09EA", "U+09EB", "U+09EC", "U+09ED", "U+09EE", "U+09EF",
     "U+0A66", "U+0A67", "U+0A68", "U+0A69", "U+0A6A", "U+0A6B", "U+0A6C", "U+0A6D", "U+0A6E", "U+0A6F",
     "U+0AE6", "U+0AE7", "U+0AE8", "U+0AE9", "U+0AEA", "U+0AEB", "U+0AEC", "U+0AED", "U+0AEE", "U+0AEF",
     "U+0B66", "U+0B67", "U+0B68", "U+0B69", "U+0B6A", "U+0B6B", "U+0B6C", "U+0B6D", "U+0B6E", "U+0B6F",
     "U+0BE6", "U+0BE7", "U+0BE8", "U+0BE9", "U+0BEA", "U+0BEB", "U+0BEC", "U+0BED", "U+0BEE", "U+0BEF",
     "U+0C66", "U+0C67", "U+0C68", "U+0C69", "U+0C6A", "U+0C6B", "U+0C6C", "U+0C6D", "U+0C6E", "U+0C6F",
     "U+0CE6", "U+0CE7", "U+0CE8", "U+0CE9", "U+0CEA", "U+0CEB", "U+0CEC", "U+0CED", "U+0CEE", "U+0CEF",
     "U+0D66", "U+0D67", "U+0D68", "U+0D69", "U+0D6A", "U+0D6B", "U+0D6C", "U+0D6D", "U+0D6E", "U+0D6F",
     "U+0DE6", "U+0DE7", "U+0DE8", "U+0DE9", "U+0DEA", "U+0DEB", "U+0DEC", "U+0DED", "U+0DEE", "U+0DEF",
     "U+0E50", "U+0E51", "U+0E52", "U+0E53", "U+0E54", "U+0E55", "U+0E56", "U+0E57", "U+0E58", "U+0E59",
     "U+0ED0", "U+0ED1", "U+0ED2", "U+0ED3", "U+0ED4", "U+0ED5", "U+0ED6", "U+0ED7", "U+0ED8", "U+0ED9",
     "U+0F20", "U+0F21", "U+0F22", "U+0F23", "U+0F24", "U+0F25", "U+0F26", "U+0F27", "U+0F28", "U+0F29",
     "U+1040", "U+1041", "U+1042", "U+1043", "U+1044", "U+1045", "U+1046", "U+1047", "U+1048", "U+1049",
     "U+1090", "U+1091", "U+1092", "U+1093", "U+1094", "U+1095", "U+1096", "U+1097", "U+1098", "U+1099",
     "U+17E0", "U+17E1", "U+17E2", "U+17E3", "U+17E4", "U+17E5", "U+17E6", "U+17E7", "U+17E8", "U+17E9",
     "U+1810", "U+1811", "U+1812", "U+1813", "U+1814", "U+1815", "U+1816", "U+1817", "U+1818", "U+1819",
     "U+1946", "U+1947", "U+1948", "U+1949", "U+194A", "U+194B", "U+194C", "U+194D", "U+194E", "U+194F",
     "U+19D0", "U+19D1", "U+19D2", "U+19D3", "U+19D4", "U+19D5", "U+19D6", "U+19D7", "U+19D8", "U+19D9",
     "U+1A80", "U+1A81", "U+1A82", "U+1A83", "U+1A84", "U+1A85", "U+1A86", "U+1A87", "U+1A88", "U+1A89",
     "U+1A90", "U+1A91", "U+1A92", "U+1A93", "U+1A94", "U+1A95", "U+1A96", "U+1A97", "U+1A98", "U+1A99",
     "U+1B50", "U+1B51", "U+1B52", "U+1B53", "U+1B54", "U+1B55", "U+1B56", "U+1B57", "U+1B58", "U+1B59",
     "U+1BB0", "U+1BB1", "U+1BB2", "U+1BB3", "U+1BB4", "U+1BB5", "U+1BB6", "U+1BB7", "U+1BB8", "U+1BB9",
     "U+1C40", "U+1C41", "U+1C42", "U+1C43", "U+1C44", "U+1C45", "U+1C46", "U+1C47", "U+1C48", "U+1C49",
     "U+1C50", "U+1C51", "U+1C52", "U+1C53", "U+1C54", "U+1C55", "U+1C56", "U+1C57", "U+1C58", "U+1C59",
     "U+A620", "U+A621", "U+A622", "U+A623", "U+A624", "U+A625", "U+A626", "U+A627", "U+A628", "U+A629",
     "U+A8D0", "U+A8D1", "U+A8D2", "U+A8D3", "U+A8D4", "U+A8D5", "U+A8D6", "U+A8D7", "U+A8D8", "U+A8D9",
     "U+A900", "U+A901", "U+A902", "U+A903", "U+A904", "U+A905", "U+A906", "U+A907", "U+A908", "U+A909",
     "U+A9D0", "U+A9D1", "U+A9D2", "U+A9D3", "U+A9D4", "U+A9D5", "U+A9D6", "U+A9D7", "U+A9D8", "U+A9D9",
     "U+A9F0", "U+A9F1", "U+A9F2", "U+A9F3", "U+A9F4", "U+A9F5", "U+A9F6", "U+A9F7", "U+A9F8", "U+A9F9",
     "U+AA50", "U+AA51", "U+AA52", "U+AA53", "U+AA54", "U+AA55", "U+AA56", "U+AA57", "U+AA58", "U+AA59",
     "U+ABF0", "U+ABF1", "U+ABF2", "U+ABF3", "U+ABF4", "U+ABF5", "U+ABF6", "U+ABF7", "U+ABF8", "U+ABF9",
     "U+FF10", "U+FF11", "U+FF12", "U+FF13", "U+FF14", "U+FF15", "U+FF16", "U+FF17", "U+FF18", "U+FF19",
     "U+104A0", "U+104A1", "U+104A2", "U+104A3", "U+104A4", "U+104A5", "U+104A6", "U+104A7", "U+104A8", "U+104A9",
     "U+10D30", "U+10D31", "U+10D32", "U+10D33", "U+10D34", "U+10D35", "U+10D36", "U+10D37", "U+10D38", "U+10D39",
     "U+11066", "U+11067", "U+11068", "U+11069", "U+1106A", "U+1106B", "U+1106C", "U+1106D", "U+1106E", "U+1106F",
     "U+110F0", "U+110F1", "U+110F2", "U+110F3", "U+110F4", "U+110F5", "U+110F6", "U+110F7", "U+110F8", "U+110F9",
     "U+11136", "U+11137", "U+11138", "U+11139", "U+1113A", "U+1113B", "U+1113C", "U+1113D", "U+1113E", "U+1113F",
     "U+111D0", "U+111D1", "U+111D2", "U+111D3", "U+111D4", "U+111D5", "U+111D6", "U+111D7", "U+111D8", "U+111D9",
     "U+112F0", "U+112F1", "U+112F2", "U+112F3", "U+112F4", "U+112F5", "U+112F6", "U+112F7", "U+112F8", "U+112F9",
     "U+11450", "U+11451", "U+11452", "U+11453", "U+11454", "U+11455", "U+11456", "U+11457", "U+11458", "U+11459",
     "U+114D0", "U+114D1", "U+114D2", "U+114D3", "U+114D4", "U+114D5", "U+114D6", "U+114D7", "U+114D8", "U+114D9",
     "U+11650", "U+11651", "U+11652", "U+11653", "U+11654", "U+11655", "U+11656", "U+11657", "U+11658", "U+11659",
     "U+116C0", "U+116C1", "U+116C2", "U+116C3", "U+116C4", "U+116C5", "U+116C6", "U+116C7", "U+116C8", "U+116C9",
     "U+11730", "U+11731", "U+11732", "U+11733", "U+11734", "U+11735", "U+11736", "U+11737", "U+11738", "U+11739",
     "U+118E0", "U+118E1", "U+118E2", "U+118E3", "U+118E4", "U+118E5", "U+118E6", "U+118E7", "U+118E8", "U+118E9",
     "U+11950", "U+11951", "U+11952", "U+11953", "U+11954", "U+11955", "U+11956", "U+11957", "U+11958", "U+11959",
     "U+11C50", "U+11C51", "U+11C52", "U+11C53", "U+11C54", "U+11C55", "U+11C56", "U+11C57", "U+11C58", "U+11C59",
     "U+11D50", "U+11D51", "U+11D52", "U+11D53", "U+11D54", "U+11D55", "U+11D56", "U+11D57", "U+11D58", "U+11D59",
     "U+11DA0", "U+11DA1", "U+11DA2", "U+11DA3", "U+11DA4", "U+11DA5", "U+11DA6", "U+11DA7", "U+11DA8", "U+11DA9",
     "U+16A60", "U+16A61", "U+16A62", "U+16A63", "U+16A64", "U+16A65", "U+16A66", "U+16A67", "U+16A68", "U+16A69",
     "U+16AC0", "U+16AC1", "U+16AC2", "U+16AC3", "U+16AC4", "U+16AC5", "U+16AC6", "U+16AC7", "U+16AC8", "U+16AC9",
     "U+16B50", "U+16B51", "U+16B52", "U+16B53", "U+16B54", "U+16B55", "U+16B56", "U+16B57", "U+16B58", "U+16B59",
     "U+1D7CE", "U+1D7CF", "U+1D7D0", "U+1D7D1", "U+1D7D2", "U+1D7D3", "U+1D7D4", "U+1D7D5", "U+1D7D6", "U+1D7D7",
     "U+1D7D8", "U+1D7D9", "U+1D7DA", "U+1D7DB", "U+1D7DC", "U+1D7DD", "U+1D7DE", "U+1D7DF", "U+1D7E0", "U+1D7E1",
     "U+1D7E2", "U+1D7E3", "U+1D7E4", "U+1D7E5", "U+1D7E6", "U+1D7E7", "U+1D7E8", "U+1D7E9", "U+1D7EA", "U+1D7EB",
     "U+1D7EC", "U+1D7ED", "U+1D7EE", "U+1D7EF", "U+1D7F0", "U+1D7F1", "U+1D7F2", "U+1D7F3", "U+1D7F4", "U+1D7F5",
     "U+1D7F6", "U+1D7F7", "U+1D7F8", "U+1D7F9", "U+1D7FA", "U+1D7FB", "U+1D7FC", "U+1D7FD", "U+1D7FE", "U+1D7FF",
     "U+1E140", "U+1E141", "U+1E142", "U+1E143", "U+1E144", "U+1E145", "U+1E146", "U+1E147", "U+1E148", "U+1E149",
     "U+1E2F0", "U+1E2F1", "U+1E2F2", "U+1E2F3", "U+1E2F4", "U+1E2F5", "U+1E2F6", "U+1E2F7", "U+1E2F8", "U+1E2F9",
     "U+1E950", "U+1E951", "U+1E952", "U+1E953", "U+1E954", "U+1E955", "U+1E956", "U+1E957", "U+1E958", "U+1E959",
     "U+1FBF0", "U+1FBF1", "U+1FBF2", "U+1FBF3", "U+1FBF4", "U+1FBF5", "U+1FBF6", "U+1FBF7", "U+1FBF8", "U+1FBF9"}

\* re.findall of one letter followed by n digits: non-overlapping matches,
\* left to right.
RECURSIVE FindAll(_, _, _, _)
FindAll(letter, n, text, i) ==
    IF i > Len(text) THEN <<>>
    ELSE IF /\ text[i] = letter
            /\ i + n <= Len(text)
            /\ \A k \in 1..n : text[i + k] \in DigitChars
         THEN <<SubSeq(text, i, i + n)>> \o FindAll(letter, n, text, i + n + 1)
         ELSE FindAll(letter, n, text, i + 1)

get_run(text) == FindAll("r", 3, text, 1)

get_period(text) == FindAll("p", 2, text, 1)

\* file_name.split("/")[-1]
RECURSIVE FileEnd(_)
FileEnd(file_name) ==
    IF \E i \in DOMAIN file_name : file_name[i] = "/"
    THEN FileEnd(SubSeq(file_name,
                        (CHOOSE i \in DOMAIN file_name : file_name[i] = "/") + 1,
                        Len(file_name)))
    ELSE file_name

p03 == <<"p", "0", "3">>
p04 == <<"p", "0", "4">>
r000 == <<"r", "0", "0", "0">>
r001 == <<"r", "0", "0", "1">>

\* meta.dataprod.config.analysis_runs: period -> list of runs.
runs == (p03 :> <<r000, r001>>) @@ (p04 :> <<r000>>)

\* f"{_period}_{run}"
RunKey(_period, _run) == <<_period, _run>>

RunKeys == UNION {{RunKey(_period, runs[_period][i]) : i \in DOMAIN runs[_period]} :
                    _period \in DOMAIN runs}

\* ------------------------------------------------------ float64 arithmetic
\* IEEE 754 binary64 for the finite values >= 0 met here, rounding to the
\* nearest value, ties to the even one. A value is [m, e] and stands for
\* m * 2^e, m an integer of at most 53 bits (or 2^53) held as the sequence
\* of its digits base Limb, the lowest first, <<>> for 0.
Limb == 2^14

\* The digits of the number whose digits may exceed Limb or be negative,
\* plus c: carries and borrows are passed on.
RECURSIVE Carry(_, _)
Carry(ls, c) ==
    IF Len(ls) = 0
    THEN IF c = 0 THEN <<>> ELSE <<c % Limb>> \o Carry(<<>>, c \div Limb)
    ELSE <<(ls[1] + c) % Limb>> \o Carry(Tail(ls), (ls[1] + c) \div Limb)

RECURSIVE Trim(_)
Trim(ls) ==
    IF Len(ls) > 0 /\ ls[Len(ls)] = 0 THEN Trim(SubSeq(ls, 1, Len(ls) - 1)) ELSE ls

\* The number of bits of a number with a non-zero highest digit.
BitLen(ls) ==
    IF Len(ls) = 0 THEN 0
    ELSE 14 * (Len(ls) - 1)
            + (CHOOSE k \in 1..14 : 2^(k - 1) <= ls[Len(ls)] /\ ls[Len(ls)] < 2^k)

\* ls * 2^s
ShiftLeft(ls, s) ==
    [i \in 1..(s \div 14) |-> 0] \o Carry([i \in DOMAIN ls |-> ls[i] * 2^(s % 14)], 0)

\* ls \div 2^s
ShiftRight(ls, s) ==
    LET q == s \div 14
        t == s % 14
    IN  Trim([i \in 1..(Len(ls) - q) |->
                (ls[i + q] \div 2^t)
                + (IF i + q < Len(ls) THEN (ls[i + q + 1] % 2^t) * 2^(14 - t) ELSE 0)])

\* Quotient and remainder of (r * Limb^Len(ls) + ls) by d, d at most 2^12.
RECURSIVE DivLimbs(_, _, _)
DivLimbs(ls, d, r) ==
    IF Len(ls) = 0 THEN [q |-> <<>>, r |-> r]
    ELSE LET cur == r * Limb + ls[Len(ls)]
             rest == DivLimbs(SubSeq(ls, 1, Len(ls) - 1), d, cur % d)
         IN  [q |-> Append(rest.q, cur \div d), r |-> rest.r]

\* The float64 nearest the exact value ls * 2^e, plus a positive amount
\* below 2^e if sticky: the bits beyond the 53rd are dropped; the value goes
\* up if they are more than half a unit of the last place kept, or half of
\* it and the last bit kept is 1.
Round(ls, e, sticky) ==
    LET n == BitLen(ls)
        s == n - 53
        q == ShiftRight(ls, s)
        guard == (ls[(s - 1) \div 14 + 1] \div 2^((s - 1) % 14)) % 2
        rest == \/ sticky
                \/ \E i \in DOMAIN ls : i - 1 < (s - 1) \div 14 /\ ls[i] # 0
                \/ ls[(s - 1) \div 14 + 1] % 2^((s - 1) % 14) # 0
        up == guard = 1 /\ (rest \/ q[1] % 2 = 1)
    IN  IF n <= 53 THEN [m |-> ls, e |-> e]
        ELSE [m |-> IF up THEN Carry(q, 1) ELSE q, e |-> e + s]

\* float(n) of an integer 0 <= n < 2^31
FloatOfInt(n) == [m |-> Carry(<<>>, n), e |-> 0]

\* x * c, c an integer 0 < c <= 2^12
FMul(x, c) == Round(Carry([i \in DOMAIN x.m |-> x.m[i] * c], 0), x.e, FALSE)

\* x / d, d an integer 0 < d <= 2^12: the quotient is taken to 70 bits
\* beyond those of x, the remainder makes the rest sticky.
FDiv(x, d) ==
    LET res == DivLimbs(<<0, 0, 0, 0, 0>> \o x.m, d, 0)
    IN  Round(Trim(res.q), x.e - 70, res.r # 0)

\* x + y (sign = 1) and x - y (sign = -1, x >= y)
FAddSub(x, y, sign) ==
    IF x.m = <<>> /\ sign = 1 THEN y
    ELSE IF y.m = <<>> THEN x
    ELSE LET e == IF x.e < y.e THEN x.e ELSE y.e
             a == ShiftLeft(x.m, x.e - e)
             b == ShiftLeft(y.m, y.e - e)
             n == IF Len(a) > Len(b) THEN Len(a) ELSE Len(b)
             at(l, i) == IF i <= Len(l) THEN l[i] ELSE 0
         IN  Round(Trim(Carry([i \in 1..n |-> at(a, i) + sign * at(b, i)], 0)), e, FALSE)

FAdd(x, y) == FAddSub(x, y, 1)

FSub(x, y) == FAddSub(x, y, -1)

RECURSIVE LimbsValue(_)
LimbsValue(ls) == IF Len(ls) = 0 THEN 0 ELSE ls[1] + Limb * LimbsValue(Tail(ls))

\* int(x), x below 2^31
FTrunc(x) == IF x.e >= 0 THEN LimbsValue(ShiftLeft(x.m, x.e))
             ELSE LimbsValue(ShiftRight(x.m, 0 - x.e))

\* The stored energy the integer n stands for.
Float64(n) == FDiv(FloatOfInt(n), EnergyScale)

\* ------------------------------------------------------------- histograms
\* A histogram is the bag of the bins of its entries; bin 0 is the underflow
\* and bin nbins + 1 the overflow bin (TH1F / TH2F with fixed binning).
\* TAxis::FindBin of a float64 x >= 0 on the axis (nbins, emin, emax):
\* 1 + int(nbins * (x - emin) / (emax - emin)) between the two ends.
FindBin(x) ==
    LET whole == FTrunc(x)
    IN  IF whole < emin THEN 0
        ELSE IF whole >= emax THEN nbins + 1
        ELSE 1 + FTrunc(FDiv(FMul(FSub(x, FloatOfInt(emin)), nbins), emax - emin))

RECURSIVE BagOfSeq(_)
BagOfSeq(s) == IF Len(s) = 0 THEN EmptyBag
               ELSE SetToBag({s[1]}) (+) BagOfSeq(Tail(s))

\* TH1F.FillN(n, x, w = 1)
FillN(hist, values) == hist (+) BagOfSeq([i \in DOMAIN values |-> FindBin(values[i])])

\* TH2F.FillN(n, x, y, w = 1)
FillN2Swapped(hist, xs, ys) ==
    hist (+) BagOfSeq([i \in DOMAIN xs |-> <<FindBin(ys[i]), FindBin(xs[i])>>])

FillN2(hist, xs, ys) ==
    hist (+) BagOfSeq([i \in DOMAIN xs |-> <<FindBin(xs[i]), FindBin(ys[i])>>])

\* TH1.Add
Add(hist, other) == hist (+) other

Entries(hist) == BagCardinality(hist)

\* stored energy * 1000
ToHistUnit(e) == FMul(Float64(e), 1000)

\* ------------------------------------------------------------ jagged arrays
RECURSIVE Flatten(_)
Flatten(ss) == IF Len(ss) = 0 THEN <<>> ELSE Head(ss) \o Flatten(Tail(ss))

\* ak.sum(array["energy"], axis=-1) for one event: the energies are added
\* one after the other, from 0.0.
RECURSIVE ak_sum(_)
ak_sum(energy) ==
    IF Len(energy) = 0 THEN FloatOfInt(0)
    ELSE FAdd(ak_sum(SubSeq(energy, 1, Len(energy) - 1)), Float64(energy[Len(energy)]))

SeqMax(s) == CHOOSE x \in Range(s) : \A y \in Range(s) : y <= x
SeqMin(s) == CHOOSE x \in Range(s) : \A y \in Range(s) : x <= y

\* list[mask] for one event of a jagged array: a boolean mask is turned into
\* the local indices of its True entries, which are then taken from the
\* list, so a mask shorter than the list picks among its first entries.
RECURSIVE JaggedPick(_, _)
JaggedPick(list, mask) ==
    IF Len(mask) = 0 THEN <<>>
    ELSE LET front == JaggedPick(list, SubSeq(mask, 1, Len(mask) - 1))
         IN  IF mask[Len(mask)] THEN Append(front, list[Len(mask)]) ELSE front

AboveThreshold(energy) == [i \in DOMAIN energy |-> energy[i] > energy_threshold]

Not(mask) == [i \in DOMAIN mask |-> ~mask[i]]

\* Lines 361-364 on one event: each line evaluates "energy > threshold" on the
\* array as it is then, that is on the energy list line 361 already cut.
ThresholdEvent(ev) ==
    LET energy1 == JaggedPick(ev.energy, AboveThreshold(ev.energy))
        mage_id1 == JaggedPick(ev.mage_id, AboveThreshold(energy1))
        is_off1 == JaggedPick(ev.is_off, AboveThreshold(energy1))
        is_ac1 == JaggedPick(ev.is_ac, AboveThreshold(energy1))
    IN  [energy |-> energy1, mage_id |-> mage_id1, is_off |-> is_off1, is_ac |-> is_ac1]

\* Lines 367-369 on one event.
RemoveOffEvent(ev) ==
    [energy |-> JaggedPick(ev.energy, Not(ev.is_off)),
     mage_id |-> JaggedPick(ev.mage_id, Not(ev.is_off)),
     is_off |-> ev.is_off,
     is_ac |-> JaggedPick(ev.is_ac, Not(ev.is_off))]

\* Lines 375-376 on one event.
WithMul(ev) ==
    [energy |-> ev.energy, mage_id |-> ev.mage_id, is_off |-> ev.is_off,
     is_ac |-> ev.is_ac, mul |-> Len(ev.energy),
     mul_is_good |-> Cardinality({i \in DOMAIN ev.is_ac : ~ev.is_ac[i]})]

\* array[mask] on the events of a batch.
RECURSIVE SelectEvents(_, _)
SelectEvents(arr, keep) ==
    IF Len(arr) = 0 THEN <<>>
    ELSE IF keep[1] THEN <<Head(arr)>> \o SelectEvents(Tail(arr), Tail(keep))
         ELSE SelectEvents(Tail(arr), Tail(keep))

\* Lines 366-380: off-detector removal, empty-event removal, multiplicity,
\* AC-event removal.
CleanArray(arr) ==
    LET a1 == [i \in DOMAIN arr |-> RemoveOffEvent(arr[i])]
        a2 == SelectEvents(a1, [i \in DOMAIN a1 |-> Len(a1[i].energy) > 0])
        a3 == [i \in DOMAIN a2 |-> WithMul(a2[i])]
    IN  IF remove_ac_hits
        THEN SelectEvents(a3, [i \in DOMAIN a3 |->
                                  \A k \in DOMAIN a3[i].is_ac : a3[i].is_ac[k] = FALSE])
        ELSE a3

\* ------------------------------------------------------------------- cuts
\* eval(_cut_string, globs, array). A cut string is the sequence of its
\* tokens, <<>> the empty string; the expressions evaluated are comparisons
\* of a per-event field with an integer.
CutMask(_cut_string, arr) ==
    LET field == _cut_string[1]
        op == _cut_string[2]
        value == _cut_string[3]
        Of(ev) == CASE field = "mul" -> ev.mul
                    [] field = "mul_is_good" -> ev.mul_is_good
        Holds(x) == CASE op = "==" -> x = value
                      [] op = "!=" -> x # value
                      [] op = ">" -> x > value
                      [] op = ">=" -> x >= value
                      [] op = "<" -> x < value
                      [] op = "<=" -> x <= value
    IN  [i \in DOMAIN arr |-> Holds(Of(arr[i]))]

ArrayCut(_cut_string, arr) ==
    IF _cut_string = <<>> THEN arr ELSE SelectEvents(arr, CutMask(_cut_string, arr))

IsPlain(_cut_dict) == _cut_dict.is_sum = FALSE /\ _cut_dict.is_2d = FALSE

\* ----------------------------------------------------------------- inputs
\* Mage ids met in the batches: four mapped germanium detectors, a germanium
\* id with no geds entry at its location, and an id with the flag unset.
\* mageid = 1000000 + cryostat * 10000 + string * 100 + posn, cryostat = 1
MageId(string, posn) == 1000000 + (1 * 10000) + (string * 100) + posn

IdV01 == MageId(1, 1)
IdV02 == MageId(1, 2)
IdB03 == MageId(1, 3)
IdC04 == MageId(8, 1)
IdUnmapped == MageId(9, 9)
IdNoFlag == 0

\* One hit <<energy, mage_id, is_off, is_ac>>; one event from its hits.
Hit(e, id) == <<e, id, FALSE, FALSE>>
HitOff(e, id) == <<e, id, TRUE, FALSE>>
HitAc(e, id) == <<e, id, FALSE, TRUE>>

Ev(hits) == [energy |-> [i \in DOMAIN hits |-> hits[i][1]],
             mage_id |-> [i \in DOMAIN hits |-> hits[i][2]],
             is_off |-> [i \in DOMAIN hits |-> hits[i][3]],
             is_ac |-> [i \in DOMAIN hits |-> hits[i][4]]]

\* The batches pytree.iterate may yield: the two events of the end-to-end
\* scenario; a hit below threshold before one above it; two-hit events over
\* different strings and over neighbours, one with the energies 0.6 and 0.7,
\* whose float64 sum is below 1.3; an AC hit and an off hit; an id
\* with the flag unset; an unmapped germanium id; a batch left empty; an id
\* too short to hold the position digits, on which process_mage_id raises;
\* a hit below threshold before an AC hit above it.
Batches ==
    { <<Ev(<<Hit(50, IdV01), Hit(120, IdV01)>>), Ev(<<Hit(5, IdV01)>>)>>,
      <<Ev(<<Hit(5, IdV01), Hit(50, IdV02)>>)>>,
      <<Ev(<<Hit(50, IdV01), Hit(70, IdC04)>>)>>,
      <<Ev(<<Hit(60, IdV01), Hit(70, IdV02)>>), Ev(<<Hit(60, IdB03)>>)>>,
      <<Ev(<<HitAc(50, IdV01), Hit(90, IdV02)>>), Ev(<<HitOff(50, IdB03), Hit(60, IdV02)>>)>>,
      <<Ev(<<Hit(50, IdNoFlag)>>), Ev(<<Hit(60, IdV01)>>)>>,
      <<Ev(<<Hit(50, IdUnmapped)>>), Ev(<<Hit(60, IdV02)>>)>>,
      <<Ev(<<Hit(5, IdB03)>>)>>,
      <<Ev(<<Hit(60, IdV02), Hit(70, MageId(1, 2) \div 100)>>)>>,
      <<Ev(<<Hit(5, IdV02), HitAc(50, IdV01)>>)>> }

\* Raw files: the first entry of fNEvents. The --raw-files lists tried.
RawFileLists == { <<>>, <<[fNEvents |-> 500], [fNEvents |-> 7]>> }

NameRun == <<"d", "/", "p", "0", "3", "_", "r", "0", "0", "1">>
NameNoTokens == <<"e", "v", "t">>
NameNoRun == <<"p", "0", "4">>
NameUnlisted == <<"p", "0", "9", "_", "r", "0", "0", "9">>

\* Input files: name, number of entries of simTree, first entry of
\* mage_n_events.
File1000 == [name |-> NameRun, num_entries |-> 1, mage_n_events |-> 1000]
File1500 == [name |-> NameNoTokens, num_entries |-> 1, mage_n_events |-> 1500]
FileNoEntries == [name |-> NameRun, num_entries |-> 0, mage_n_events |-> 1000]
FileNoRun == [name |-> NameNoRun, num_entries |-> 1, mage_n_events |-> 1000]
FileUnlisted == [name |-> NameUnlisted, num_entries |-> 1, mage_n_events |-> 1500]
\* A name whose period and run are written with ARABIC-INDIC digits.
FileNonAscii ==
    [name |-> <<"p", "U+0660", "U+0663", "_", "r", "U+0660", "U+0660", "U+0661">>,
     num_entries |-> 1, mage_n_events |-> 1500]

\* The input_files lists tried.
InputFileLists ==
    { <<File1000>>, <<File1000, File1500>>, <<File1500, File1000>>,
      <<File1000, FileNoEntries, File1500>>, <<FileNoEntries>>,
      <<FileNoRun>>, <<FileUnlisted>>, <<File1500, FileUnlisted>>, <<FileNonAscii>> }

\* rconfig["cuts"], in declaration order.
CutRaw == [name |-> "raw", cut_string |-> <<>>, is_sum |-> FALSE, is_2d |-> FALSE]
CutMul1 == [name |-> "mul1", cut_string |-> <<"mul", "==", 1>>, is_sum |-> FALSE, is_2d |-> FALSE]
CutM2 == [name |-> "m2", cut_string |-> <<"mul", "==", 2>>, is_sum |-> FALSE, is_2d |-> TRUE]
CutSum == [name |-> "sum", cut_string |-> <<"mul", "==", 2>>, is_sum |-> TRUE, is_2d |-> FALSE]

CutConfigs == { <<CutRaw, CutMul1, CutSum>>, <<CutRaw, CutM2, CutSum>> }

SeqsUpTo(S, lo, hi) == UNION {[1..n -> S] : n \in lo..hi}

\* ------------------------------------------------------------------ state
VARIABLES
    pc,                 \* position of the script
    error,              \* the exception that ended the run, or "none"
    cuts,               \* rconfig["cuts"]
    raw_files,          \* args.raw_files
    input_files,        \* args.input_files
    raw_idx,            \* raw files counted so far
    file_idx,           \* input files finished so far
    batch_idx,          \* batches of the open file finished so far
    n_primaries_total,
    hists, run_hists, sum_hists, hists_2d,
    period, run,
    orig,               \* the batch as pytree.iterate yielded it
    mage_ids, chmap_mage,
    array,              \* the batch as the cleaning steps leave it
    cut_idx,            \* cut the cut loop is at
    n_grouped,          \* times the grouping step ran
    n_created,          \* times the output file was created
    out_file,           \* the written output, or <<>> before
    ids_arg, mage_names,        \* resolver: argument and result
    pair_arg, m2_result,        \* categoriser: argument and result
    call_args, call_result      \* the other functions: arguments and result

runVars == <<pc, error, cuts, raw_files, input_files, raw_idx, file_idx, batch_idx,
             n_primaries_total, hists, run_hists, sum_hists, hists_2d, period, run,
             orig, mage_ids, chmap_mage, array, cut_idx, n_grouped, n_created,
             out_file>>
fnVars == <<ids_arg, mage_names, pair_arg, m2_result, call_args, call_result>>
vars == <<runVars, fnVars>>

NoMaps == [raised |-> FALSE, name |-> <<>>, channel |-> <<>>, position |-> <<>>,
           string |-> <<>>]

FnIdle == /\ ids_arg = <<>>
          /\ mage_names = NoMaps
          /\ pair_arg = <<>>
          /\ m2_result = <<>>
          /\ call_args = <<>>
          /\ call_result = <<>>

RunIdle ==
    /\ pc = "raw" /\ error = "none"
    /\ raw_idx = 0 /\ file_idx = 0 /\ batch_idx = 0
    /\ n_primaries_total = 0
    /\ hists = <<>> /\ run_hists = <<>> /\ sum_hists = <<>> /\ hists_2d = <<>>
    /\ period = <<>> /\ run = <<>>
    /\ orig = <<>> /\ mage_ids = <<>> /\ chmap_mage = NoMaps /\ array = <<>>
    /\ cut_idx = 0
    /\ n_grouped = 0 /\ n_created = 0 /\ out_file = <<>>

\* The state once the arguments and the configuration are read (line 239).
Init ==
    /\ RunIdle
    /\ FnIdle
    /\ cuts \in CutConfigs
    /\ raw_files \in RawFileLists
    /\ input_files \in InputFileLists

\* ---------------------------------------------------------------- actions
\* An uncaught exception ends the script.
RaiseAndGroup(kind) == pc' = "files" /\ file_idx' = Len(input_files) /\ error' = kind

Raise(kind) == pc' = "aborted" /\ file_idx' = file_idx /\ error' = kind

\* Lines 244-247: one raw file of the --raw-files loop.
CountRawFile ==
    /\ pc = "raw"
    /\ raw_idx < Len(raw_files)
    /\ n_primaries_total' = n_primaries_total + raw_files[raw_idx + 1].fNEvents
    /\ raw_idx' = raw_idx + 1
    /\ UNCHANGED <<pc, error, cuts, raw_files, input_files, file_idx, batch_idx,
                   hists, run_hists, sum_hists, hists_2d, period, run, orig,
                   mage_ids, chmap_mage, array, cut_idx, n_grouped, n_created,
                   out_file, fnVars>>

\* names_m2: sd_0 .. sd_6, all, cat_1 .. cat_3, in this order.
names_m2 == [i \in 1..7 |-> <<"sd", i - 1>>] \o <<<<"all">>, <<"cat", 1>>, <<"cat", 2>>,
                                                    <<"cat", 3>>>>

\* The cut names each histogram dictionary is keyed by.
PlainCutNames == {cuts[i].name : i \in {j \in DOMAIN cuts : IsPlain(cuts[j])}}
NotSumCutNames == {cuts[i].name : i \in {j \in DOMAIN cuts : ~cuts[j].is_sum}}
SumCutNames == {cuts[i].name : i \in {j \in DOMAIN cuts : cuts[j].is_sum = TRUE}}
TwoDCutNames == {cuts[i].name : i \in {j \in DOMAIN cuts : cuts[j].is_2d = TRUE}}

\* The runs "for run in _run_list" (line 277) goes through for one cut.
RunsInOrder ==
    LET runs_periods == <<p03, p04>>    \* the periods in the order of runs.items()
        n == Len(runs_periods)
        upto[k \in 0..n] == IF k = 0 THEN <<>> ELSE upto[k - 1] \o runs[runs_periods[k]]
    IN  upto[n]

\* Lines 254-322: the histograms are created empty. The loop of line 277
\* binds the module-level name run and leaves it at the last run.
InitHistograms ==
    /\ pc = "raw"
    /\ raw_idx = Len(raw_files)
    /\ hists' = [c \in PlainCutNames |-> [k \in DOMAIN geds_mapping |-> EmptyBag]]
    /\ run_hists' = [c \in NotSumCutNames |-> [k \in RunKeys |-> EmptyBag]]
    /\ sum_hists' = [c \in SumCutNames |-> [k \in {<<"all">>} |-> EmptyBag]]
    /\ hists_2d' = [c \in TwoDCutNames |-> [k \in Range(names_m2) |-> EmptyBag]]
    /\ run' = IF NotSumCutNames # {} /\ Len(RunsInOrder) > 0
               THEN RunsInOrder[Len(RunsInOrder)]
               ELSE run
    /\ pc' = "files"
    /\ UNCHANGED <<error, cuts, raw_files, input_files, raw_idx, file_idx, batch_idx,
                   n_primaries_total, period, orig, mage_ids, chmap_mage,
                   array, cut_idx, n_grouped, n_created, out_file, fnVars>>

\* n_primaries_total += pytree["mage_n_events"].array()[0]
CountFileOverwrite(total, pytree) == pytree.mage_n_events

CountFile(total, pytree) == total + pytree.mage_n_events

\* Lines 341-344: a simTree with no entries raises RuntimeError.
ZeroEntriesUnchecked(pytree) == FALSE

ZeroEntries(pytree) == pytree.num_entries = 0

\* Lines 324-346: the next input file is opened.
OpenFile ==
    /\ pc = "files"
    /\ file_idx < Len(input_files)
    /\ LET pytree == input_files[file_idx + 1]
           file_end == FileEnd(pytree.name)
           runs_found == get_run(file_end)
           periods_found == get_period(file_end)
       IN  IF Len(periods_found) > 0 /\ Len(runs_found) = 0
           THEN \* period = period[0], then run[0] of the empty list
                /\ period' = periods_found[1]
                /\ run' = runs_found
                /\ Raise("IndexError")
                /\ UNCHANGED <<n_primaries_total, batch_idx>>
           ELSE /\ period' = IF Len(periods_found) > 0 THEN periods_found[1] ELSE p03
                /\ run' = IF Len(periods_found) > 0 THEN runs_found[1] ELSE r000
                /\ IF ZeroEntries(pytree)
                   THEN /\ Raise("RuntimeError")
                        /\ UNCHANGED <<n_primaries_total, batch_idx>>
                   ELSE /\ n_primaries_total' = CountFile(n_primaries_total, pytree)
                        /\ batch_idx' = 0
                        /\ pc' = "iterate"
                        /\ UNCHANGED <<error, file_idx>>
    /\ UNCHANGED <<cuts, raw_files, input_files, raw_idx, hists, run_hists, sum_hists,
                   hists_2d, orig, mage_ids, chmap_mage, array, cut_idx, n_grouped,
                   n_created, out_file, fnVars>>

\* Lines 348-357: a batch is read and its channel mappings computed.
LoadBatch ==
    /\ pc = "iterate"
    /\ batch_idx < MaxBatches
    /\ \E b \in Batches :
        /\ orig' = b
        /\ array' = b
        /\ mage_ids' = Flatten([i \in DOMAIN b |-> b[i].mage_id])
        /\ IF process_mage_id(mage_ids').raised
           THEN \* the call raises and line 355 assigns nothing
                Raise("ValueError") /\ UNCHANGED chmap_mage
           ELSE /\ chmap_mage' = process_mage_id(mage_ids')
                /\ pc' = "threshold"
                /\ UNCHANGED <<error, file_idx>>
    /\ UNCHANGED <<cuts, raw_files, input_files, raw_idx, batch_idx,
                   n_primaries_total, hists, run_hists, sum_hists, hists_2d, period,
                   run, cut_idx, n_grouped, n_created, out_file, fnVars>>

\* Lines 360-364: hits below threshold are removed.
ThresholdCut ==
    /\ pc = "threshold"
    /\ array' = [i \in DOMAIN array |-> ThresholdEvent(array[i])]
    /\ pc' = "clean"
    /\ UNCHANGED <<error, cuts, raw_files, input_files, raw_idx, file_idx, batch_idx,
                   n_primaries_total, hists, run_hists, sum_hists, hists_2d, period,
                   run, orig, mage_ids, chmap_mage, cut_idx, n_grouped, n_created,
                   out_file, fnVars>>

\* Lines 366-380: the batch is cleaned; the cut loop starts.
CleanBatch ==
    /\ pc = "clean"
    /\ array' = CleanArray(array)
    /\ cut_idx' = 1
    /\ pc' = "cuts"
    /\ UNCHANGED <<error, cuts, raw_files, input_files, raw_idx, file_idx, batch_idx,
                   n_primaries_total, hists, run_hists, sum_hists, hists_2d, period,
                   run, orig, mage_ids, chmap_mage, n_grouped, n_created, out_file,
                   fnVars>>

\* Lines 411-416: the (period, run) histogram of the cut is filled.
FillRunHistFirstOnly(rh, _cut_name, values) ==
    [rh EXCEPT ![_cut_name][RunKey(period, run)] = FillN(@, <<values[1]>>)]

FillRunHist(rh, _cut_name, values) ==
    [rh EXCEPT ![_cut_name][RunKey(period, run)] = FillN(@, values)]

\* Lines 396-416: the fill loop of a plain cut, from entry i of mage_ids on.
\* The result holds the histograms as the loop leaves them and the exception
\* that stopped it, if any.
RECURSIVE PlainLoop(_, _, _, _, _)
PlainLoop(i, _cut_name, array_cut, h, rh) ==
    IF i > Len(mage_ids) THEN [hists |-> h, run_hists |-> rh, error |-> "none"]
    ELSE LET __mage_id == mage_ids[i] IN
         IF __mage_id \notin DOMAIN chmap_mage.channel
         THEN [hists |-> h, run_hists |-> rh, error |-> "KeyError mage_id"]
         ELSE LET _rawid == chmap_mage.channel[__mage_id]
                  picked == Flatten([e \in DOMAIN array_cut |->
                               JaggedPick(array_cut[e].energy,
                                          [k \in DOMAIN array_cut[e].mage_id |->
                                              array_cut[e].mage_id[k] = __mage_id])])
                  _energy_array == [k \in DOMAIN picked |-> ToHistUnit(picked[k])]
              IN  IF Len(_energy_array) = 0
                  THEN PlainLoop(i + 1, _cut_name, array_cut, h, rh)
                  ELSE LET h2 == [h EXCEPT ![_cut_name][_rawid] = FillN(@, _energy_array)]
                       IN  IF RunKey(period, run) \notin DOMAIN rh[_cut_name]
                           THEN [hists |-> h2, run_hists |-> rh, error |-> "KeyError run"]
                           ELSE PlainLoop(i + 1, _cut_name, array_cut, h2,
                                          FillRunHist(rh, _cut_name, _energy_array))

\* Lines 420-433: what stops the 2d branch before its first fill, or "none".
\* np.vstack of no rows raises ValueError; the converters raise KeyError.
Error2d(array_cut) ==
    LET rows == [e \in DOMAIN array_cut |-> array_cut[e].mage_id] IN
    IF Len(array_cut) = 0 THEN "ValueError"
    ELSE IF \E e \in DOMAIN rows : Len(rows[e]) # Len(rows[1]) THEN "ValueError"
    ELSE IF Len(rows[1]) < 2 THEN "IndexError"
    ELSE IF ConverterRaises(chmap_mage.string, [e \in DOMAIN rows |-> rows[e][1]])
            \/ ConverterRaises(chmap_mage.string, [e \in DOMAIN rows |-> rows[e][2]])
         THEN "KeyError mage_id"
    ELSE "none"

\* np.where(flags)[0] applied to a per-event array.
RECURSIVE Where(_, _)
Where(values, flags) ==
    IF Len(values) = 0 THEN <<>>
    ELSE IF flags[1] THEN <<Head(values)>> \o Where(Tail(values), Tail(flags))
         ELSE Where(Tail(values), Tail(flags))

\* Lines 420-462: the fills of a 2d cut into the buckets of names_m2.
Fill2d(array_cut, h2d) ==
    LET n == Len(array_cut)
        _energy_1_array == [e \in 1..n |-> ToHistUnit(SeqMax(array_cut[e].energy))]
        _energy_2_array == [e \in 1..n |-> ToHistUnit(SeqMin(array_cut[e].energy))]
        _mult_channel_array == [e \in 1..n |-> array_cut[e].mage_id]
        categories == get_m2_categories(_mult_channel_array, chmap_mage.string,
                                        chmap_mage.position)
        string_diff == get_string_row_diff(_mult_channel_array, chmap_mage.string,
                                           chmap_mage.position).string_diff
        sel(name) == IF name[1] = "cat" THEN [e \in 1..n |-> categories[e] = name[2]]
                     ELSE IF name[1] = "sd" THEN [e \in 1..n |-> string_diff[e] = name[2]]
                     ELSE [e \in 1..n |-> TRUE]
    IN  [name \in DOMAIN h2d |->
            FillN2(h2d[name], Where(_energy_2_array, sel(name)),
                   Where(_energy_1_array, sel(name)))]

\* Lines 466-475: the fill of a summed-energy cut.
FillSum(array_cut, h) ==
    FillN(h, [e \in DOMAIN array_cut |-> FMul(ak_sum(array_cut[e].energy), 1000)])

\* Lines 383-475: one turn of the cut loop on the cleaned batch. The fill
\* loop of a plain cut runs once: plain is what it leaves.
ProcessCut ==
    /\ pc = "cuts"
    /\ cut_idx <= Len(cuts)
    /\ LET _cut_dict == cuts[cut_idx]
           _cut_name == _cut_dict.name
           array_cut == ArrayCut(_cut_dict.cut_string, array)
       IN  \E plain \in {IF IsPlain(_cut_dict)
                          THEN PlainLoop(1, _cut_name, array_cut, hists, run_hists)
                          ELSE [hists |-> hists, run_hists |-> run_hists,
                                error |-> "none"]} :
           LET failed == IF IsPlain(_cut_dict) THEN plain.error
                         ELSE IF _cut_dict.is_2d = TRUE THEN Error2d(array_cut)
                         ELSE "none"
           IN  /\ IF IsPlain(_cut_dict)
                  THEN /\ hists' = plain.hists
                       /\ run_hists' = plain.run_hists
                       /\ UNCHANGED <<hists_2d, sum_hists>>
                  ELSE IF _cut_dict.is_2d = TRUE
                  THEN /\ hists_2d' = IF failed = "none"
                                      THEN [hists_2d EXCEPT
                                                ![_cut_name] = Fill2d(array_cut, @)]
                                      ELSE hists_2d
                       /\ UNCHANGED <<hists, run_hists, sum_hists>>
                  ELSE /\ sum_hists' = [sum_hists EXCEPT ![_cut_name][<<"all">>] =
                                                            FillSum(array_cut, @)]
                       /\ UNCHANGED <<hists, run_hists, hists_2d>>
               /\ IF failed # "none"
                  THEN Raise(failed) /\ UNCHANGED <<cut_idx, batch_idx>>
                  ELSE /\ UNCHANGED <<error, file_idx>>
                       /\ IF cut_idx < Len(cuts)
                          THEN cut_idx' = cut_idx + 1 /\ UNCHANGED <<pc, batch_idx>>
                          ELSE /\ batch_idx' = batch_idx + 1
                               /\ pc' = "iterate"
                               /\ UNCHANGED cut_idx
    /\ UNCHANGED <<cuts, raw_files, input_files, raw_idx, n_primaries_total, period,
                   run, orig, mage_ids, chmap_mage, array, n_grouped, n_created,
                   out_file, fnVars>>

\* The open file has no further batch.
EndFile ==
    /\ pc = "iterate"
    /\ batch_idx >= 1
    /\ file_idx' = file_idx + 1
    /\ pc' = "files"
    /\ UNCHANGED <<error, cuts, raw_files, input_files, raw_idx, batch_idx,
                   n_primaries_total, hists, run_hists, sum_hists, hists_2d, period,
                   run, orig, mage_ids, chmap_mage, array, cut_idx, n_grouped,
                   n_created, out_file, fnVars>>

RECURSIVE BagSum(_, _)
BagSum(keys, h) == IF keys = {} THEN EmptyBag
                   ELSE LET k == CHOOSE x \in keys : TRUE
                        IN  Add(BagSum(keys \ {k}, h), h[k])

TypeNames == {"bege", "coax", "icpc", "ppc"}

\* Lines 482-501 for one cut: h is the per-channel dictionary of the cut.
GroupCutAllAfterLoop(h) ==
    LET chans == DOMAIN geds_mapping
        last == CHOOSE k \in chans : \A j \in chans : j[2] <= k[2]
    IN  [k \in chans \cup {<<"all">>} \cup {<<t>> : t \in TypeNames} |->
            IF k \in chans THEN h[k]
            ELSE IF k = <<"all">> THEN h[last]
            ELSE BagSum({c \in chans : chmap[geds_mapping[c]].type = k[1]}, h)]

GroupCut(h) ==
    LET chans == DOMAIN geds_mapping
    IN  [k \in chans \cup {<<"all">>} \cup {<<t>> : t \in TypeNames} |->
            IF k \in chans THEN h[k]
            ELSE IF k = <<"all">> THEN BagSum(chans, h)
            ELSE BagSum({c \in chans : chmap[geds_mapping[c]].type = k[1]}, h)]

\* Lines 477-501: the grouped histograms are made.
MakeGrouped ==
    /\ pc = "files"
    /\ file_idx = Len(input_files)
    /\ hists' = [c \in DOMAIN hists |-> GroupCut(hists[c])]
    /\ n_grouped' = n_grouped + 1
    /\ pc' = "write"
    /\ UNCHANGED <<error, cuts, raw_files, input_files, raw_idx, file_idx, batch_idx,
                   n_primaries_total, run_hists, sum_hists, hists_2d, period, run,
                   orig, mage_ids, chmap_mage, array, cut_idx, n_created, out_file,
                   fnVars>>

\* Lines 504-528: the output file is created, filled and closed.
WriteOutput ==
    /\ pc = "write"
    /\ out_file' = [hists |-> hists, run_hists |-> run_hists, sum_hists |-> sum_hists,
                    hists_2d |-> hists_2d,
                    number_of_primaries |-> Str(n_primaries_total)]
    /\ n_created' = n_created + 1
    /\ pc' = "done"
    /\ UNCHANGED <<error, cuts, raw_files, input_files, raw_idx, file_idx, batch_idx,
                   n_primaries_total, hists, run_hists, sum_hists, hists_2d, period,
                   run, orig, mage_ids, chmap_mage, array, cut_idx, n_grouped, fnVars>>

Next ==
    \/ CountRawFile
    \/ InitHistograms
    \/ OpenFile
    \/ LoadBatch
    \/ ThresholdCut
    \/ CleanBatch
    \/ ProcessCut
    \/ EndFile
    \/ MakeGrouped
    \/ WriteOutput

Spec == Init /\ [][Next]_vars

\* ------------------------------------------------- the resolver on its own
RunUnused ==
    /\ error = "none" /\ cuts = <<>> /\ raw_files = <<>> /\ input_files = <<>>
    /\ raw_idx = 0 /\ file_idx = 0 /\ batch_idx = 0
    /\ n_primaries_total = 0
    /\ hists = <<>> /\ run_hists = <<>> /\ sum_hists = <<>> /\ hists_2d = <<>>
    /\ period = <<>> /\ run = <<>>
    /\ orig = <<>> /\ mage_ids = <<>> /\ chmap_mage = NoMaps /\ array = <<>>
    /\ cut_idx = 0
    /\ n_grouped = 0 /\ n_created = 0 /\ out_file = <<>>

runData == <<error, cuts, raw_files, input_files, raw_idx, file_idx, batch_idx,
             n_primaries_total, hists, run_hists, sum_hists, hists_2d, period, run,
             orig, mage_ids, chmap_mage, array, cut_idx, n_grouped, n_created,
             out_file>>

\* Identifiers tried on process_mage_id: mapped and unmapped germanium ids,
\* ids with another non-zero leading digit, ids too short to hold the string
\* and position digits, and the id 0, the one integer whose str() starts
\* with the digit 0.
InitResolver ==
    /\ RunUnused
    /\ pc = "call"
    /\ ids_arg \in SeqsUpTo({IdNoFlag, IdV01, IdV02, IdC04, IdUnmapped,
                             MageId(1, 1) + 1000000, MageId(1, 2) - 1000000,
                             MageId(8, 1) \div 100, MageId(1, 3) \div 1000000,
                             MageId(1, 3) * 10}, 0, MaxIds)
    /\ mage_names = NoMaps
    /\ pair_arg = <<>> /\ m2_result = <<>>
    /\ call_args = <<>> /\ call_result = <<>>

\* mage_names = process_mage_id(ids_arg)
CallProcessMageId ==
    /\ pc = "call"
    /\ mage_names' = process_mage_id(ids_arg)
    /\ pc' = "returned"
    /\ UNCHANGED <<runData, ids_arg, pair_arg, m2_result, call_args, call_result>>

NextResolver == CallProcessMageId

SpecResolver == InitResolver /\ [][NextResolver]_vars

\* ---------------------------------------------- the categoriser on its own
\* A channel array of two rows, the pair of channels in both orders; the
\* converters are the string and position mappings of its identifiers.
Locations == (0..MaxString) \X (0..MaxPos)

InitCategoriser ==
    /\ RunUnused
    /\ pc = "call"
    /\ ids_arg = <<>> /\ mage_names = NoMaps
    /\ call_args = <<>> /\ call_result = <<>>
    /\ \E l1 \in Locations, l2 \in Locations :
          pair_arg = <<MageId(l1[1], l1[2]), MageId(l2[1], l2[2])>>
    /\ m2_result = [categories |-> <<>>, string_diff |-> <<>>, floor_diff |-> <<>>]

PairArray == << <<pair_arg[1], pair_arg[2]>>, <<pair_arg[2], pair_arg[1]>> >>
PairString == [id \in Range(pair_arg) |-> IntOf(MageString(id))]
PairPosition == [id \in Range(pair_arg) |-> IntOf(MagePos(id))]

\* categories = get_m2_categories(channel_array, ...)
CallM2Categories ==
    /\ pc = "call"
    /\ m2_result.categories = <<>>
    /\ m2_result' = [m2_result EXCEPT
                       !.categories = get_m2_categories(PairArray, PairString,
                                                        PairPosition)]
    /\ UNCHANGED <<pc, runData, ids_arg, mage_names, pair_arg, call_args, call_result>>

\* string_diff, floor_diff = get_string_row_diff(channel_array, ...)
CallStringRowDiff ==
    /\ pc = "call"
    /\ m2_result.string_diff = <<>>
    /\ LET r == get_string_row_diff(PairArray, PairString, PairPosition)
       IN  m2_result' = [m2_result EXCEPT !.string_diff = r.string_diff,
                                          !.floor_diff = r.floor_diff]
    /\ UNCHANGED <<pc, runData, ids_arg, mage_names, pair_arg, call_args, call_result>>

\* Lines 356-357: the converters of the 2d branch, here the string and the
\* position of the two identifiers of the pair.
SetConverters ==
    /\ pc = "call"
    /\ chmap_mage = NoMaps
    /\ chmap_mage' = [NoMaps EXCEPT !.string = PairString, !.position = PairPosition]
    /\ UNCHANGED <<pc, error, cuts, raw_files, input_files, raw_idx, file_idx, batch_idx,
                   n_primaries_total, hists, run_hists, sum_hists, hists_2d, period,
                   run, orig, mage_ids, array, cut_idx, n_grouped, n_created, out_file,
                   fnVars>>

\* Two events of two hits over the pair, one for each order of its channels.
PairEvents == <<Ev(<<Hit(50, pair_arg[1]), Hit(70, pair_arg[2])>>),
                Ev(<<Hit(70, pair_arg[2]), Hit(50, pair_arg[1])>>)>>

\* Lines 420-462 on the two events of the pair, the buckets empty before.
FillPair2d ==
    /\ pc = "call"
    /\ chmap_mage # NoMaps
    /\ hists_2d = <<>>
    /\ hists_2d' = [c \in {"m2"} |->
                        Fill2d(PairEvents, [n \in Range(names_m2) |-> EmptyBag])]
    /\ UNCHANGED <<pc, error, cuts, raw_files, input_files, raw_idx, file_idx, batch_idx,
                   n_primaries_total, hists, run_hists, sum_hists, period, run, orig,
                   mage_ids, chmap_mage, array, cut_idx, n_grouped, n_created, out_file,
                   fnVars>>

NextCategoriser == CallM2Categories \/ CallStringRowDiff \/ SetConverters \/ FillPair2d

SpecCategoriser == InitCategoriser /\ [][NextCategoriser]_vars

\* ------------------------------------------- the path patterns on their own
\* A text is the sequence of its pieces; the braces and the colon of a
\* replacement field are pieces of their own, and so is each digit of a
\* formatted number. Keyword arguments are a sequence of <<name, value>>.
FILETYPES ==
    [input |-> [ver |-> ".mac", stp |-> ".mac", hit |-> ".lh5", evt |-> ".lh5",
                pdf |-> ".lh5"],
     output |-> [ver |-> ".lh5", stp |-> ".lh5", hit |-> ".lh5", evt |-> ".lh5",
                 pdf |-> ".lh5"]]

HasKw(kwargs, name) == \E i \in DOMAIN kwargs : kwargs[i][1] = name

\* kwargs[name]
Kw(kwargs, name) == kwargs[CHOOSE i \in DOMAIN kwargs : kwargs[i][1] = name][2]

DigitPiece(d) == <<"0", "1", "2", "3", "4", "5", "6", "7", "8", "9">>[d + 1]

RECURSIVE ZeroPad(_, _)
ZeroPad(s, width) == IF Len(s) >= width THEN s ELSE ZeroPad(<<"0">> \o s, width)

\* format(n, ">04d") of an integer n >= 0
FormatInt04(n) == ZeroPad([i \in DOMAIN Str(n) |-> DigitPiece(Str(n)[i])], 4)

\* The names of the replacement fields of a pattern.
FieldNames(pattern) ==
    {pattern[i + 1] : i \in {j \in DOMAIN pattern : pattern[j] = "{"}}

\* string.Formatter().vformat(pattern, (), comb), comb a dictionary whose
\* missing keys read as "{key}" (allow_missing); the one format
\* specification met is ">04d".
RECURSIVE vformat(_, _)
vformat(pattern, comb) ==
    IF Len(pattern) = 0 THEN <<>>
    ELSE IF pattern[1] # "{" THEN <<pattern[1]>> \o vformat(Tail(pattern), comb)
    ELSE LET name == pattern[2]
             has_spec == pattern[3] = ":"
             field_len == IF has_spec THEN 5 ELSE 3
             value == IF HasKw(comb, name) THEN Kw(comb, name)
                      ELSE <<"{", name, "}">>
             text == IF has_spec THEN FormatInt04(value) ELSE value
         IN  text \o vformat(SubSeq(pattern, field_len + 1, Len(pattern)), comb)

\* itertools.product over the values of each wildcard, the last wildcard
\* varying fastest.
RECURSIVE combinator(_)
combinator(wildcards) ==
    IF Len(wildcards) = 0 THEN << <<>> >>
    ELSE LET rest == combinator(Tail(wildcards))
             name == wildcards[1][1]
             values == wildcards[1][2]
         IN  Flatten([i \in DOMAIN values |->
                        [j \in DOMAIN rest |-> << <<name, values[i]>> >> \o rest[j]]])

\* snakemake.io.expand(pattern, **wildcards, allow_missing=True): wildcards
\* the pattern does not use are dropped, then the pattern is formatted once
\* per combination of the values of the others.
expand(pattern, wildcards) ==
    LET Used(w) == w[1] \in FieldNames(pattern)
        combs == combinator(SelectSeq(wildcards, Used))
    IN  [c \in DOMAIN combs |-> vformat(pattern, combs[c])]

\* A scalar keyword argument is a list of one value to expand.
AsList(kwargs) == [i \in DOMAIN kwargs |-> <<kwargs[i][1], <<kwargs[i][2]>> >>]

simjob_rel_basename(kwargs) ==
    expand(<<"{", "simid", "}", "/", "{", "simid", "}", "_", "{", "jobid", "}">>,
           AsList(kwargs))[1]

\* tier = kwargs.get("tier"); RuntimeError if it is None.
TierMissing(kwargs) == ~HasKw(kwargs, "tier")

\* pathlib.Path(text) on a POSIX system. The separator "/" is a piece of
\* its own. The root is "//" for exactly two leading separators and "/" for
\* any other number of them; the parts are the components between
\* separators, the empty ones and "." dropped, ".." kept.
Path(text) ==
    LET n == Len(text)
        leading == Cardinality({i \in 1..n : \A j \in 1..i : text[j] = "/"})
        seps == {0, n + 1} \cup {i \in 1..n : text[i] = "/"}
        starts == seps \ {n + 1}
        nth(k) == CHOOSE s \in starts : Cardinality({t \in starts : t < s}) = k - 1
        following(s) == CHOOSE t \in seps : t > s /\ \A u \in seps : u > s => t <= u
        rel == [k \in 1..Cardinality(starts) |->
                   SubSeq(text, nth(k) + 1, following(nth(k)) - 1)]
        Named(x) == x # <<>> /\ x # <<".">>
    IN  [root |-> IF leading = 0 THEN <<>>
                  ELSE IF leading = 2 THEN <<"/", "/">>
                  ELSE <<"/">>,
         parts |-> SelectSeq(rel, Named)]

\* p / text: a text with a root replaces p, another is appended to it.
PathDiv(p, text) ==
    LET other == Path(text)
    IN  IF other.root # <<>> THEN other
        ELSE [root |-> p.root, parts |-> p.parts \o other.parts]

\* str(p): the root, then the parts joined by the separator; "." for the
\* path without root and parts.
PathStr(p) ==
    IF p.root = <<>> /\ p.parts = <<>> THEN <<".">>
    ELSE p.root \o Flatten([i \in DOMAIN p.parts |->
                               IF i = 1 THEN p.parts[i] ELSE <<"/">> \o p.parts[i]])

input_simjob_filename(config, kwargs) ==
    LET tier == Kw(kwargs, "tier")
        fname == simjob_rel_basename(<<>>) \o <<"-tier_">> \o tier
                    \o <<FILETYPES.input[tier[1]]>>
        expr == PathStr(PathDiv(PathDiv(Path(config.paths.macros), tier), fname))
    IN  expand(expr, AsList(kwargs))[1]

output_simjob_filename(config, kwargs) ==
    LET tier == Kw(kwargs, "tier")
        fname == simjob_rel_basename(<<>>) \o <<"-tier_">> \o tier
                    \o <<FILETYPES.output[tier[1]]>>
        expr == PathStr(PathDiv(Path(config.paths.tier[tier[1]]), fname))
    IN  expand(expr, AsList(kwargs))[1]

\* list(range(n))
PyRangeFromOne(n) == [i \in 1..n |-> i]

PyRange(n) == [i \in 1..n |-> i - 1]

\* expand("{id:>04d}", id=list(range(n_macros)))
JobIds(n_macros) == expand(<<"{", "id", ":", ">04d", "}">>, << <<"id", PyRange(n_macros)>> >>)

input_simid_filenames(config, n_macros, kwargs) ==
    LET pat == input_simjob_filename(config, kwargs)
        jobids == JobIds(n_macros)
    IN  expand(pat, << <<"jobid", jobids>> >> \o AsList(kwargs))

output_simid_filenames(config, n_macros, kwargs) ==
    LET pat == output_simjob_filename(config, kwargs)
        jobids == JobIds(n_macros)
    IN  expand(pat, << <<"jobid", jobids>> >> \o AsList(kwargs))

\* The configurations tried: one whose directories are written in normal
\* form and differ from tier to tier, and one per directory of dirs, used
\* for the macros and for every tier: with a trailing separator, a doubled
\* separator, "." components, empty, ".", the root alone, two and three
\* leading separators, and a ".." component.
PathsConfigs ==
    LET dirs == { <<"inputs", "/", "macros", "/">>,
                  <<"/", "gen", "/", "/", "tier">>,
                  <<".", "/", "inputs", "/", ".", "/", "macros">>,
                  <<>>,
                  <<".">>,
                  <<"/">>,
                  <<"/", "/", "gen">>,
                  <<"/", "/", "/", "gen">>,
                  <<"inputs", "/", "..", "/", "macros">> }
    IN  {[paths |-> [macros |-> <<"inputs", "/", "macros">>,
                     tier |-> [t \in DOMAIN FILETYPES.output |-> <<"/", "gen", "/", t>>]]]}
        \cup {[paths |-> [macros |-> d, tier |-> [t \in DOMAIN FILETYPES.output |-> d]]] :
                 d \in dirs}

\* The keyword arguments tried: every tier with two simulation identifiers,
\* and calls without the tier.
KwargsTried ==
    LET simids == {"l200a-hpge-bulk-2vbb", "l200a-fibers-Ra224-to-Pb208"}
    IN  {<< <<"tier", <<t>> >>, <<"simid", <<s>> >> >> : t \in DOMAIN FILETYPES.input, s \in simids}
        \cup {<< <<"simid", <<s>> >>, <<"tier", <<t>> >> >> : t \in {"ver"}, s \in simids}
        \cup {<< <<"simid", <<s>> >> >> : s \in simids}

InitPatterns ==
    /\ RunUnused
    /\ pc = "call"
    /\ ids_arg = <<>> /\ mage_names = NoMaps
    /\ pair_arg = <<>> /\ m2_result = <<>>
    /\ call_args \in [fn : {"input_simid_filenames", "output_simid_filenames"},
                      config : PathsConfigs,
                      n_macros : 0..MaxMacros,
                      kwargs : KwargsTried]
    /\ call_result = <<>>

CallInputSimidFilenames ==
    /\ pc = "call"
    /\ call_args.fn = "input_simid_filenames"
    /\ call_result' =
          IF TierMissing(call_args.kwargs)
          THEN [raised |-> "RuntimeError", value |-> <<>>]
          ELSE [raised |-> "none",
                value |-> input_simid_filenames(call_args.config, call_args.n_macros,
                                                call_args.kwargs)]
    /\ pc' = "returned"
    /\ UNCHANGED <<runData, ids_arg, mage_names, pair_arg, m2_result, call_args>>

CallOutputSimidFilenames ==
    /\ pc = "call"
    /\ call_args.fn = "output_simid_filenames"
    /\ call_result' =
          IF TierMissing(call_args.kwargs)
          THEN [raised |-> "RuntimeError", value |-> <<>>]
          ELSE [raised |-> "none",
                value |-> output_simid_filenames(call_args.config, call_args.n_macros,
                                                 call_args.kwargs)]
    /\ pc' = "returned"
    /\ UNCHANGED <<runData, ids_arg, mage_names, pair_arg, m2_result, call_args>>

NextPatterns == CallInputSimidFilenames \/ CallOutputSimidFilenames

SpecPatterns == InitPatterns /\ [][NextPatterns]_vars

\* ------------------------------------- the evt tier config file on its own
\* make_tier_evt_config_file.py: one entry per germanium detector of the
\* channel map, keyed by its mage id. A smearing parameter is null, the
\* number 0, or math.sqrt(x) / 2.355 for a fitted x, kept as written.
null == [kind |-> "null", of |-> 0]

SqrtOver2355(x) == [kind |-> "sqrt/2.355", of |-> x]

\* data[ch]["ecal"]["cuspEmax_ctc_cal"]["eres_pars"] of a processed channel
eres_pars == <<4, 9>>

\* all_det.loc[gedname]["fccd-mm"], in hundredths of a millimetre
fccd_mm == [n \in GedNames |-> 100]

\* Lines 128-135: "no_psd" is "ac" in the golden dataset, "on" otherwise.
SimMask(dataset, usability) ==
    IF usability = "no_psd"
    THEN IF dataset = "golden" THEN "ac" ELSE "on"
    ELSE usability

\* Lines 143-147: the smearing is null when the channel has no fit.
Smearing(ch, channels, mask) ==
    IF ch \in channels
    THEN [sig0 |-> SqrtOver2355(eres_pars[1]), sig1 |-> SqrtOver2355(eres_pars[2]),
          sig2 |-> [kind |-> "number", of |-> 0]]
    ELSE [sig0 |-> null, sig1 |-> null, sig2 |-> null]

\* Lines 121-124: the geds of the channel map, in its order.
detlist ==
    LET IsGedName(n) == chmap[n].system = "geds"
    IN  SelectSeq(chmap_names, IsGedName)

InitEvtConfig ==
    /\ RunUnused
    /\ pc = "call"
    /\ ids_arg = <<>> /\ mage_names = NoMaps
    /\ pair_arg = <<>> /\ m2_result = <<>>
    /\ call_args \in [dataset : {"golden", "silver", "bronze"},
                      \* ged.analysis.usability of the metadata
                      usability : [Range(detlist) -> {"on", "off", "ac", "no_psd"}],
                      channels : SUBSET {ChKey(chmap[n].daq.rawid) : n \in Range(detlist)}]
    /\ call_result = [done |-> 0, outstr |-> <<>>]

\* Lines 46-53: an invalid --dataset ends the script with status 1.
CheckDataset ==
    /\ pc = "call"
    /\ pc' = IF call_args.dataset \in {"golden", "silver"} THEN "detectors" ELSE "exited"
    /\ UNCHANGED <<runData, fnVars>>

\* Lines 125-147: the entry of the next detector of detlist.
AddDetector ==
    /\ pc = "detectors"
    /\ call_result.done < Len(detlist)
    /\ LET gedname == detlist[call_result.done + 1]
           mask == SimMask(call_args.dataset, call_args.usability[gedname])
           ch == ChKey(chmap[gedname].daq.rawid)
           mageid == MageId(chmap[gedname].location.string,
                            chmap[gedname].location.position)
           entry == [name |-> gedname, nplus_fccd_mm |-> fccd_mm[gedname],
                     energy |-> Smearing(ch, call_args.channels, mask),
                     usability |-> mask]
       IN  call_result' = [done |-> call_result.done + 1,
                           outstr |-> (mageid :> entry) @@ call_result.outstr]
    /\ UNCHANGED <<pc, runData, ids_arg, mage_names, pair_arg, m2_result, call_args>>

\* Lines 150-154: the JSON file is written.
WriteEvtConfig ==
    /\ pc = "detectors"
    /\ call_result.done = Len(detlist)
    /\ pc' = "written"
    /\ UNCHANGED <<runData, fnVars>>

NextEvtConfig == CheckDataset \/ AddDetector \/ WriteEvtConfig

SpecEvtConfig == InitEvtConfig /\ [][NextEvtConfig]_vars

\* ------------------------------- the mage id written and read on its own
\* The identifier make_tier_evt_config_file.py writes for a detector at
\* (string, position) is decoded by process_mage_id of build_pdf.py.
InitCodec ==
    /\ RunUnused
    /\ pc = "call"
    /\ ids_arg = <<>> /\ mage_names = NoMaps
    /\ pair_arg = <<>> /\ m2_result = <<>>
    /\ call_args \in [string : 0..MaxCode, position : 0..MaxCode]
    /\ call_result = <<>>

\* mageid = 1000000 + (cryostat * 10000) + (string * 100) + posn
EncodeMageId ==
    /\ pc = "call"
    /\ call_result' = [mageid |-> MageId(call_args.string, call_args.position)]
    /\ pc' = "encoded"
    /\ UNCHANGED <<runData, ids_arg, mage_names, pair_arg, m2_result, call_args>>

\* Lines 64-69 on the identifier, and process_mage_id on the list holding it.
DecodeMageId ==
    /\ pc = "encoded"
    /\ LET _mage_id == call_result.mageid
       IN  call_result' =
              [mageid |-> _mage_id,
               is_ged |-> IsGed(_mage_id),
               raised |-> IdRaises(_mage_id),
               string |-> IF IntRaises(MageString(_mage_id)) THEN -1
                          ELSE IntOf(MageString(_mage_id)),
               pos |-> IF IntRaises(MagePos(_mage_id)) THEN -1
                       ELSE IntOf(MagePos(_mage_id)),
               mappings |-> process_mage_id(<<_mage_id>>)]
    /\ pc' = "decoded"
    /\ UNCHANGED <<runData, ids_arg, mage_names, pair_arg, m2_result, call_args>>

NextCodec == EncodeMageId \/ DecodeMageId

SpecCodec == InitCodec /\ [][NextCodec]_vars

\* ================================================================== claims

RECURSIVE SumSeq(_)
SumSeq(s) == IF Len(s) = 0 THEN 0 ELSE Head(s) + SumSeq(Tail(s))

\* Hits of array_cut whose mage_id resolves to the channel ch.
HitsOfChannel(ch, array_cut) ==
    SumSeq([e \in DOMAIN array_cut |->
              Cardinality({k \in DOMAIN array_cut[e].mage_id :
                             /\ array_cut[e].mage_id[k] \in DOMAIN chmap_mage.channel
                             /\ chmap_mage.channel[array_cut[e].mage_id[k]] = ch})])

\* C1: a turn of the cut loop on a plain cut that ends without an exception
\* adds to each channel's global histogram exactly one entry per hit of that
\* channel in the cut batch, however many hits of the channel the batch holds.
C1_OneEntryPerHit ==
    [][(pc = "cuts" /\ IsPlain(cuts[cut_idx]) /\ error' = "none") =>
          \A ch \in DOMAIN geds_mapping :
              Entries(hists'[cuts[cut_idx].name][ch]) =
                  Entries(hists[cuts[cut_idx].name][ch])
                    + HitsOfChannel(ch, ArrayCut(cuts[cut_idx].cut_string, array))]_vars

\* The hits of a list whose original energy is above threshold, in order.
KeptHits(list, energy) == JaggedPick(list, AboveThreshold(energy))

\* C2: after the threshold step the four per-hit lists of every event hold
\* exactly the hits whose original energy was above threshold, in the
\* original order.
C2_ThresholdKeepsAligned ==
    pc = "clean" =>
        \A i \in DOMAIN array :
            /\ array[i].energy = KeptHits(orig[i].energy, orig[i].energy)
            /\ array[i].mage_id = KeptHits(orig[i].mage_id, orig[i].energy)
            /\ array[i].is_off = KeptHits(orig[i].is_off, orig[i].energy)
            /\ array[i].is_ac = KeptHits(orig[i].is_ac, orig[i].energy)

\* Entries of a histogram in one bin.
BinContent(hist, bin) == IF bin \in DOMAIN hist THEN hist[bin] ELSE 0

RECURSIVE SumOver(_, _)
SumOver(S, f) == IF S = {} THEN 0
                 ELSE LET x == CHOOSE y \in S : TRUE
                      IN  f[x] + SumOver(S \ {x}, f)

\* C3: once the input files are processed and the grouped histograms made,
\* the "all" histogram of every plain cut holds in every bin the sum of the
\* per-channel histograms of that cut.
C3_AllIsSumOfChannels ==
    pc \in {"write", "done"} =>
        \A c \in PlainCutNames : \A bin \in 0..(nbins + 1) :
            LET content == [ch \in DOMAIN geds_mapping |-> BinContent(hists[c][ch], bin)]
            IN  BinContent(hists[c][<<"all">>], bin) = SumOver(DOMAIN geds_mapping, content)

\* C3 witness: a finished run whose "all" histogram of the raw cut sums
\* entries of two different channels.
C3_Witness ==
    /\ pc = "done"
    /\ Entries(out_file.hists["raw"][<<"all">>]) >= 2
    /\ \E c1 \in DOMAIN geds_mapping, c2 \in DOMAIN geds_mapping :
          /\ c1 # c2
          /\ Entries(out_file.hists["raw"][c1]) > 0
          /\ Entries(out_file.hists["raw"][c2]) > 0

RawCounts == [i \in DOMAIN raw_files |-> raw_files[i].fNEvents]
FileCounts == [i \in DOMAIN input_files |-> input_files[i].mage_n_events]

\* C4: the number of primaries written is the string of the sum of the
\* counts of all raw files and all input files, each file counted once; with
\* no raw file and input files reporting 1000 and 1500 it is "2500".
C4_PrimariesWritten ==
    pc = "done" =>
        /\ out_file.number_of_primaries =
              Str(SumOver(DOMAIN raw_files, RawCounts) + SumOver(DOMAIN input_files, FileCounts))
        /\ ( /\ raw_files = <<>>
             /\ FileCounts = <<1000, 1500>> )
           => out_file.number_of_primaries = <<2, 5, 0, 0>>

\* C4 witness: a finished run without raw files over two input files
\* reporting 1000 and 1500, the last of them read in two batches.
C4_Witness ==
    /\ pc = "done"
    /\ raw_files = <<>>
    /\ FileCounts = <<1000, 1500>>
    /\ batch_idx = 2
    /\ out_file.number_of_primaries = <<2, 5, 0, 0>>

\* C5: a turn of the cut loop in which no event survives the cut's filter
\* raises nothing and leaves the histograms unchanged, whatever the kind of
\* the cut.
C5_EmptyResultNoError ==
    [][(pc = "cuts" /\ Len(ArrayCut(cuts[cut_idx].cut_string, array)) = 0) =>
          /\ error' = "none"
          /\ UNCHANGED <<hists, run_hists, sum_hists, hists_2d>>]_vars

\* C6: a batch holding an identifier the resolver drops goes through every
\* plain cut without a lookup failure on that identifier.
C6_DroppedIdsSkipped ==
    [][(/\ pc = "cuts"
        /\ IsPlain(cuts[cut_idx])
        /\ \E i \in DOMAIN mage_ids : mage_ids[i] \notin DOMAIN chmap_mage.channel) =>
          error' # "KeyError mage_id"]_vars

\* The leading decimal digit of the identifier is zero.
FlagUnset(_mage_id) == Str(_mage_id)[1] = 0

\* C7: process_mage_id returns without an exception when every identifier of
\* the list has the germanium flag unset, and no identifier with the flag
\* unset is a key of any of the four mappings it returns.
C7_UnflaggedExcluded ==
    pc = "returned" =>
        /\ (\A i \in DOMAIN ids_arg : FlagUnset(ids_arg[i])) => ~mage_names.raised
        /\ \A i \in DOMAIN ids_arg :
              FlagUnset(ids_arg[i]) =>
                  ids_arg[i] \notin (DOMAIN mage_names.channel \cup DOMAIN mage_names.name
                                     \cup DOMAIN mage_names.string
                                     \cup DOMAIN mage_names.position)

\* C7 witness: the resolver returned mappings for a list holding both an
\* identifier with the flag unset and a resolved germanium identifier.
C7_Witness ==
    /\ pc = "returned"
    /\ \E i \in DOMAIN ids_arg : FlagUnset(ids_arg[i])
    /\ DOMAIN mage_names.channel # {}

\* C8: for a two-hit event get_m2_categories returns 1 for the same string
\* and positions one apart, 2 for the same string otherwise, 3 for different
\* strings, and the same category with the two channels swapped.
C8_CategoryRule ==
    m2_result.categories # <<>> =>
        LET s1 == PairString[pair_arg[1]]
            s2 == PairString[pair_arg[2]]
            p1 == PairPosition[pair_arg[1]]
            p2 == PairPosition[pair_arg[2]]
            cat == m2_result.categories[1]
        IN  /\ cat \in {1, 2, 3}
            /\ (s1 = s2 /\ (p1 - p2 = 1 \/ p2 - p1 = 1)) => cat = 1
            /\ (s1 = s2 /\ p1 - p2 # 1 /\ p2 - p1 # 1) => cat = 2
            /\ s1 # s2 => cat = 3
            /\ m2_result.categories[2] = cat

\* C8 witness: a same-string pair with the second channel one position below
\* the first was categorised.
C8_Witness ==
    /\ m2_result.categories # <<>>
    /\ PairString[pair_arg[1]] = PairString[pair_arg[2]]
    /\ PairPosition[pair_arg[1]] = PairPosition[pair_arg[2]] + 1
    /\ m2_result.categories = <<1, 1>>

\* C9: the string_diff of get_string_row_diff is the smaller of
\* (s1 - s2) mod 11 and (s2 - s1) mod 11, and is the same with the two
\* channels swapped.
C9_StringDiffSymmetric ==
    m2_result.string_diff # <<>> =>
        LET s1 == PairString[pair_arg[1]]
            s2 == PairString[pair_arg[2]]
            d12 == CHOOSE d \in 0..10 : \E q \in -2..2 : s1 - s2 = 11 * q + d
            d21 == CHOOSE d \in 0..10 : \E q \in -2..2 : s2 - s1 = 11 * q + d
        IN  /\ m2_result.string_diff[1] = IF d12 <= d21 THEN d12 ELSE d21
            /\ m2_result.string_diff[2] = m2_result.string_diff[1]

\* C9 witness: the difference was computed for strings 1 and 9, whose two
\* one-sided differences 3 and 8 differ.
C9_Witness ==
    /\ m2_result.string_diff # <<>>
    /\ PairString[pair_arg[1]] = 1
    /\ PairString[pair_arg[2]] = 9
    /\ m2_result.string_diff = <<3, 3>>

FillPhases == {"raw", "files", "iterate", "threshold", "clean", "cuts"}

ChannelHists == [c \in DOMAIN hists |-> [k \in DOMAIN geds_mapping |-> hists[c][k]]]

\* C10: the grouping step runs at most once and only after the fills of all
\* input files; the output is created at most once and only after grouping;
\* no histogram is filled once grouping has run; a run an exception ended
\* has done no grouping and created no output; a finished run has done both
\* exactly once.
C10_PhaseOrder ==
    /\ [](/\ pc \in FillPhases => (n_grouped = 0 /\ n_created = 0)
          /\ pc = "write" => (n_grouped = 1 /\ n_created = 0 /\ file_idx = Len(input_files))
          /\ pc = "done" => (n_grouped = 1 /\ n_created = 1)
          /\ (pc = "aborted" \/ error # "none") =>
                (n_grouped = 0 /\ n_created = 0 /\ out_file = <<>>))
    /\ [][n_grouped >= 1 =>
            (/\ ChannelHists' = ChannelHists
             /\ UNCHANGED <<run_hists, sum_hists, hists_2d>>)]_vars

\* C10 witness: a finished run that filled histograms, grouped them and wrote
\* the output.
C10_Witness ==
    /\ pc = "done"
    /\ n_grouped = 1 /\ n_created = 1
    /\ \E c \in DOMAIN out_file.hists : Entries(out_file.hists[c][<<"all">>]) > 0

\* C11: an input file whose simTree has no entries ends the run with an
\* exception at that file: its count of primaries is not added, the file is
\* never iterated, and nothing runs after the exception, so that no later
\* input file is opened.
C11_ZeroEntriesFatal ==
    /\ [](\A i \in 1..file_idx : input_files[i].num_entries # 0)
    /\ [](pc \in {"iterate", "threshold", "clean", "cuts"} =>
            input_files[file_idx + 1].num_entries # 0)
    /\ [][(/\ pc = "files"
           /\ file_idx < Len(input_files)
           /\ input_files[file_idx + 1].num_entries = 0) =>
             /\ pc' = "aborted"
             /\ error' = "RuntimeError"
             /\ file_idx' = file_idx
             /\ n_primaries_total' = n_primaries_total]_vars
    /\ [][pc = "aborted" => UNCHANGED vars]_vars

\* C11 witness: the run ended at the empty second file of three; the total
\* holds the raw files and the first file only, and the third was not opened.
C11_Witness ==
    /\ pc = "aborted"
    /\ error = "RuntimeError"
    /\ Len(input_files) = 3
    /\ file_idx = 1
    /\ input_files[2].num_entries = 0
    /\ n_primaries_total = SumOver(DOMAIN raw_files, RawCounts) + FileCounts[1]
    /\ Len(raw_files) = 2

\* What the cleaning steps and the filter of the cut leave of an event read
\* as a batch of its own: no event or one.
AloneCut(_cut_dict, ev) ==
    ArrayCut(_cut_dict.cut_string, CleanArray(<<ThresholdEvent(ev)>>))

\* The entries a plain cut adds to the histogram of channel ch for an event
\* read as a batch of its own.
AlonePlain(_cut_dict, ev, ch) ==
    LET kept == AloneCut(_cut_dict, ev)
        fills == [i \in DOMAIN ev.mage_id |->
                    IF /\ ev.mage_id[i] \in DOMAIN chmap_mage.channel
                       /\ chmap_mage.channel[ev.mage_id[i]] = ch
                    THEN BagOfSeq(Flatten([e \in DOMAIN kept |->
                            [k \in DOMAIN JaggedPick(kept[e].energy,
                                   [j \in DOMAIN kept[e].mage_id |->
                                       kept[e].mage_id[j] = ev.mage_id[i]]) |->
                                FindBin(ToHistUnit(JaggedPick(kept[e].energy,
                                   [j \in DOMAIN kept[e].mage_id |->
                                       kept[e].mage_id[j] = ev.mage_id[i]])[k]))]]))
                    ELSE EmptyBag]
    IN  BagSum(DOMAIN ev.mage_id, fills)

\* The entries a 2d cut adds to the bucket name for an event read alone.
Alone2d(_cut_dict, ev, name) ==
    LET kept == AloneCut(_cut_dict, ev)
    IN  IF Len(kept) = 0 THEN EmptyBag
        ELSE Fill2d(kept, [n \in Range(names_m2) |-> EmptyBag])[name]

\* C12: the histograms do not depend on how the events are grouped into
\* batches: a turn of the cut loop that ends without an exception adds to
\* every per-channel, sum and 2d histogram what its events would add read
\* one batch each.
C12_RegroupingInvariant ==
    [][(pc = "cuts" /\ error' = "none") =>
          LET c == cuts[cut_idx] IN
          IF IsPlain(c)
          THEN \A ch \in DOMAIN geds_mapping :
                  hists'[c.name][ch] =
                      Add(hists[c.name][ch],
                          BagSum(DOMAIN orig,
                                 [e \in DOMAIN orig |-> AlonePlain(c, orig[e], ch)]))
          ELSE IF c.is_2d = TRUE
          THEN \A name \in Range(names_m2) :
                  hists_2d'[c.name][name] =
                      Add(hists_2d[c.name][name],
                          BagSum(DOMAIN orig,
                                 [e \in DOMAIN orig |-> Alone2d(c, orig[e], name)]))
          ELSE sum_hists'[c.name][<<"all">>] =
                   Add(sum_hists[c.name][<<"all">>],
                       BagSum(DOMAIN orig,
                              [e \in DOMAIN orig |->
                                  FillSum(AloneCut(c, orig[e]), EmptyBag)]))]_vars

\* What str(Path(dir) / name) holds before name, for the directories tried:
\* a directory written in normal form is followed by one separator; a
\* trailing separator, a doubled separator and "." components are dropped;
\* the empty directory and "." give no prefix; the root is not doubled; two
\* leading separators are kept and three are one.
NormalPrefix(dir) ==
    CASE dir \in {<<>>, <<".">>} -> <<>>
      [] dir = <<"/">> -> <<"/">>
      [] dir = <<"inputs", "/", "macros", "/">> -> <<"inputs", "/", "macros", "/">>
      [] dir = <<"/", "gen", "/", "/", "tier">> -> <<"/", "gen", "/", "tier", "/">>
      [] dir = <<".", "/", "inputs", "/", ".", "/", "macros">> ->
            <<"inputs", "/", "macros", "/">>
      [] dir = <<"/", "/", "/", "gen">> -> <<"/", "gen", "/">>
      [] OTHER -> dir \o <<"/">>

\* The path of job i written out: the directory of the configuration in
\* normal form, the tier for an input file, the simulation identifier twice,
\* the job index as four decimal digits, the tier and the file type.
ExpectedPath(fn, config, kwargs, i) ==
    LET tier == Kw(kwargs, "tier")
        simid == Kw(kwargs, "simid")
        digits == <<DigitPiece((i \div 1000) % 10), DigitPiece((i \div 100) % 10),
                    DigitPiece((i \div 10) % 10), DigitPiece(i % 10)>>
    IN  (IF fn = "input_simid_filenames"
         THEN NormalPrefix(config.paths.macros) \o tier \o <<"/">>
         ELSE NormalPrefix(config.paths.tier[tier[1]]))
        \o simid \o <<"/">> \o simid \o <<"_">> \o digits \o <<"-tier_">> \o tier
        \o <<IF fn = "input_simid_filenames" /\ tier[1] \in {"ver", "stp"}
             THEN ".mac" ELSE ".lh5">>

\* C13: with scalar tier and simid, input_simid_filenames and
\* output_simid_filenames return n_macros pairwise distinct paths; path i
\* (from 0) carries the job index i as four zero-padded digits and is the
\* path the single-job function returns for that job index.
C13_SimidFilenames ==
    (pc = "returned" /\ call_result.raised = "none") =>
        LET n == call_args.n_macros
            fn == call_args.fn
            config == call_args.config
            kwargs == call_args.kwargs
            paths == call_result.value
            single(i) ==
                IF fn = "input_simid_filenames"
                THEN input_simjob_filename(config,
                         kwargs \o << <<"jobid", FormatInt04(i)>> >>)
                ELSE output_simjob_filename(config,
                         kwargs \o << <<"jobid", FormatInt04(i)>> >>)
        IN  /\ Len(paths) = n
            /\ \A i, j \in 1..n : i # j => paths[i] # paths[j]
            /\ \A i \in 1..n : /\ paths[i] = ExpectedPath(fn, config, kwargs, i - 1)
                               /\ paths[i] = single(i - 1)

\* C13 witness: output_simid_filenames returned eleven paths or more for the
\* tier hit under a directory written with a doubled separator; the
\* eleventh carries the job index 0010 under the directory in normal form.
C13_Witness ==
    /\ pc = "returned"
    /\ call_args.fn = "output_simid_filenames"
    /\ call_args.config.paths.tier["hit"] = <<"/", "gen", "/", "/", "tier">>
    /\ call_args.n_macros >= 11
    /\ call_result.raised = "none"
    /\ call_result.value[11] =
          <<"/", "gen", "/", "tier", "/", "l200a-hpge-bulk-2vbb", "/",
            "l200a-hpge-bulk-2vbb", "_", "0", "0", "1", "0", "-tier_", "hit", ".lh5">>

\* C14: at every point of a run no exception has ended, the (period, run)
\* histograms of a plain cut hold, bin by bin, what the per-channel
\* histograms of the cut hold; their totals of entries are equal.
C14_RunHistsMatch ==
    (error = "none" /\ pc # "raw") =>
        \A c \in PlainCutNames :
            /\ BagSum(DOMAIN run_hists[c], run_hists[c]) =
                  BagSum(DOMAIN geds_mapping, hists[c])
            /\ SumOver(DOMAIN run_hists[c],
                       [k \in DOMAIN run_hists[c] |-> Entries(run_hists[c][k])]) =
                  SumOver(DOMAIN geds_mapping,
                          [k \in DOMAIN geds_mapping |-> Entries(hists[c][k])])

\* C14 witness: a finished run over two files of different runs, each of
\* which filled its own (period, run) histogram of the cut raw, with fills
\* of two entries at once among them.
C14_Witness ==
    /\ pc = "done"
    /\ Entries(run_hists["raw"][RunKey(p03, r000)]) > 0
    /\ Entries(run_hists["raw"][RunKey(p03, r001)]) > 1
    /\ Entries(run_hists["raw"][RunKey(p04, r000)]) = 0

\* The 2d entries a cut batch is to add to the bucket all: for each event the
\* bins of the smaller (x) and of the larger (y) of its hit energies, x 1000.
PairEntries(array_cut) ==
    BagOfSeq([e \in DOMAIN array_cut |->
                <<FindBin(ToHistUnit(SeqMin(array_cut[e].energy))),
                  FindBin(ToHistUnit(SeqMax(array_cut[e].energy)))>>])

CatBuckets == {<<"cat", 1>>, <<"cat", 2>>, <<"cat", 3>>}

\* C15: a turn of the cut loop on a 2d cut that ends without an exception
\* adds to the bucket all one entry per passing event, x the smaller and y
\* the larger of its two energies; every entry of every bucket has x <= y;
\* and each passing event is in exactly one of cat_1, cat_2 and cat_3.
C15_TwoDimFill ==
    /\ [][(pc = "cuts" /\ cuts[cut_idx].is_2d = TRUE /\ error' = "none") =>
            LET c == cuts[cut_idx]
                array_cut == ArrayCut(c.cut_string, array)
            IN  /\ hists_2d'[c.name][<<"all">>] =
                      Add(hists_2d[c.name][<<"all">>], PairEntries(array_cut))
                /\ SumOver(CatBuckets, [k \in CatBuckets |-> Entries(hists_2d'[c.name][k])])
                      = SumOver(CatBuckets,
                                [k \in CatBuckets |-> Entries(hists_2d[c.name][k])])
                          + Len(array_cut)]_vars
    /\ [](\A c \in DOMAIN hists_2d :
            /\ \A name \in DOMAIN hists_2d[c] :
                  \A entry \in DOMAIN hists_2d[c][name] : entry[1] <= entry[2]
            /\ BagSum(CatBuckets, hists_2d[c]) = hists_2d[c][<<"all">>])

\* C15 witness: the bucket all holds an entry with x < y for a pair of
\* neighbours (cat_1) and one for a pair over two strings (cat_3).
C15_Witness ==
    /\ "m2" \in DOMAIN hists_2d
    /\ \E entry \in DOMAIN hists_2d["m2"][<<"all">>] : entry[1] < entry[2]
    /\ Entries(hists_2d["m2"][<<"cat", 1>>]) > 0
    /\ Entries(hists_2d["m2"][<<"cat", 3>>]) > 0
    /\ Entries(hists_2d["m2"][<<"all">>]) =
          Entries(hists_2d["m2"][<<"cat", 1>>]) + Entries(hists_2d["m2"][<<"cat", 3>>])

\* The event holds a hit flagged is_ac that is above the threshold and not
\* in an off detector.
HoldsAcHit(ev) ==
    \E k \in DOMAIN ev.energy :
        /\ ev.energy[k] > energy_threshold
        /\ ev.is_off[k] = FALSE
        /\ ev.is_ac[k] = TRUE

\* The batch, had the events holding such a hit never been read.
WithoutAcEvents(batch) ==
    SelectEvents(batch, [i \in DOMAIN batch |-> ~HoldsAcHit(batch[i])])

\* What the threshold cut, the cleaning steps and the filter of the cut
\* leave of a batch.
BatchCut(_cut_dict, batch) ==
    ArrayCut(_cut_dict.cut_string,
             CleanArray([i \in DOMAIN batch |-> ThresholdEvent(batch[i])]))

\* The entries the fill loop of a plain cut adds to the histogram of channel
\* ch when the batch read is batch.
BatchPlain(_cut_dict, batch, ch) ==
    LET kept == BatchCut(_cut_dict, batch)
        ids == Flatten([e \in DOMAIN batch |-> batch[e].mage_id])
        picked(id) == Flatten([e \in DOMAIN kept |->
                         JaggedPick(kept[e].energy,
                                    [j \in DOMAIN kept[e].mage_id |->
                                        kept[e].mage_id[j] = id])])
        fills == [i \in DOMAIN ids |->
                    IF /\ ids[i] \in DOMAIN chmap_mage.channel
                       /\ chmap_mage.channel[ids[i]] = ch
                    THEN BagOfSeq([k \in DOMAIN picked(ids[i]) |->
                                      FindBin(ToHistUnit(picked(ids[i])[k]))])
                    ELSE EmptyBag]
    IN  BagSum(DOMAIN ids, fills)

\* The entries a 2d cut adds to the bucket name when the batch read is batch.
Batch2d(_cut_dict, batch, name) ==
    LET kept == BatchCut(_cut_dict, batch)
    IN  IF Len(kept) = 0 THEN EmptyBag
        ELSE Fill2d(kept, [n \in Range(names_m2) |-> EmptyBag])[name]

\* The <<event, hit>> indices of the channel identifiers of a batch.
HitIndices(arr) ==
    UNION {{<<e, k>> : k \in DOMAIN arr[e].mage_id} : e \in DOMAIN arr}

\* The batch read holds hits of channel ch, all of them flagged is_ac.
AllHitsAc(ch) ==
    LET hits == {p \in HitIndices(orig) :
                    /\ orig[p[1]].mage_id[p[2]] \in DOMAIN chmap_mage.channel
                    /\ chmap_mage.channel[orig[p[1]].mage_id[p[2]]] = ch}
    IN  /\ hits # {}
        /\ \A p \in hits : orig[p[1]].is_ac[p[2]] = TRUE

\* C16: an event that holds an AC hit above the threshold and not in an off
\* detector adds no entry to any histogram of any cut: a turn of the cut
\* loop that ends without an exception adds to every per-channel, 2d and sum
\* histogram exactly what it would add had the batch been read without such
\* events; and a channel whose hits in the batch are all AC hits gets no
\* entry.
C16_AcEventsExcluded ==
    [][(pc = "cuts" /\ error' = "none") =>
          LET c == cuts[cut_idx]
              others == WithoutAcEvents(orig)
          IN  IF IsPlain(c)
              THEN \A ch \in DOMAIN geds_mapping :
                      /\ hists'[c.name][ch] =
                            Add(hists[c.name][ch], BatchPlain(c, others, ch))
                      /\ AllHitsAc(ch) => hists'[c.name][ch] = hists[c.name][ch]
              ELSE IF c.is_2d = TRUE
              THEN \A name \in Range(names_m2) :
                      hists_2d'[c.name][name] =
                          Add(hists_2d[c.name][name], Batch2d(c, others, name))
              ELSE sum_hists'[c.name][<<"all">>] =
                      FillSum(BatchCut(c, others), sum_hists[c.name][<<"all">>])]_vars

\* C17: every entry of the generated config whose usability is "off" has
\* null sig0, sig1 and sig2, whether or not the channel of the detector is
\* among the processed channels of the calibration results.
C17_OffHasNullSmearing ==
    pc \in {"detectors", "written"} =>
        \A mageid \in DOMAIN call_result.outstr :
            call_result.outstr[mageid].usability = "off" =>
                /\ call_result.outstr[mageid].energy.sig0 = null
                /\ call_result.outstr[mageid].energy.sig1 = null
                /\ call_result.outstr[mageid].energy.sig2 = null

\* C18: whatever the name of an input file, opening it gives a period and a
\* run whose key is among the (period, run) histograms created for every
\* cut, and no fill fails on a missing key: so for a name without period
\* token, for a name with a period token and no run token, and for a name
\* whose period and run are not listed.
C18_RunKeyExists ==
    /\ [][pc = "files" => error' # "IndexError"]_vars
    /\ [][pc = "cuts" => error' # "KeyError run"]_vars
    /\ [](pc \in {"iterate", "threshold", "clean", "cuts"} =>
            \A c \in DOMAIN run_hists : RunKey(period, run) \in DOMAIN run_hists[c])

\* C19: for a string index and a position in 0..99, the identifier
\* 1000000 + 10000 + 100 * string + position is decoded with the germanium
\* flag set, the same string and the same position, and resolves to the
\* geds entry of the channel map at that location, if there is one.
C19_EncodeDecodeAgree ==
    (pc = "decoded" /\ call_args.string <= 99 /\ call_args.position <= 99) =>
        /\ call_result.mageid =
              1000000 + 10000 + 100 * call_args.string + call_args.position
        /\ call_result.is_ged
        /\ ~call_result.raised
        /\ call_result.string = call_args.string
        /\ call_result.pos = call_args.position
        /\ ~call_result.mappings.raised
        /\ \A n \in GedNames :
              (/\ chmap[n].location.string = call_args.string
               /\ chmap[n].location.position = call_args.position) =>
                 /\ call_result.mageid \in DOMAIN call_result.mappings.name
                 /\ call_result.mappings.name[call_result.mageid] = n
                 /\ call_result.mappings.string[call_result.mageid] = call_args.string
                 /\ call_result.mappings.position[call_result.mageid] =
                       call_args.position

\* C19 witness: string 99 and position 99 went through both steps.
C19_Witness ==
    /\ pc = "decoded"
    /\ call_args = [string |-> 99, position |-> 99]
    /\ call_result.mageid = 1019999
    /\ call_result.string = 99
    /\ call_result.pos = 99

SdBuckets == {<<"sd", k>> : k \in 0..5}

\* C20: with the modulus 11 the string difference of any two string indices
\* is in 0..5, so that every event of a 2d cut is in exactly one of the
\* buckets sd_0 .. sd_5 and the bucket sd_6 stays empty.
C20_StringDiffRange ==
    /\ \A i \in DOMAIN m2_result.string_diff : m2_result.string_diff[i] \in 0..5
    /\ hists_2d # <<>> =>
          /\ hists_2d["m2"][<<"sd", 6>>] = EmptyBag
          /\ BagSum(SdBuckets, hists_2d["m2"]) = hists_2d["m2"][<<"all">>]
          /\ Entries(hists_2d["m2"][<<"all">>]) = Len(PairEvents)
          /\ \E k \in 0..5 : Entries(hists_2d["m2"][<<"sd", k>>]) = Len(PairEvents)

\* C20 witness: a pair of channels six strings apart has filled the buckets;
\* both of its events are in sd_5.
C20_Witness ==
    /\ hists_2d # <<>>
    /\ Abs(PairString[pair_arg[1]] - PairString[pair_arg[2]]) = 6
    /\ m2_result.string_diff = <<5, 5>>
    /\ Entries(hists_2d["m2"][<<"sd", 5>>]) = 2

====
